---- MODULE Spec2Model ----
(***************************************************************************)
(* Control cycle core of the HULKs robot: the game-controller state filter *)
(* (crates/control/src/game_controller_state_filter.rs) and the motion     *)
(* selector (crates/control/src/motion/motion_selector.rs), each as a      *)
(* state machine whose one action is the node's cycle().                   *)
(*                                                                         *)
(* Encoding.  Option<T> is a sequence of length at most one: None is <<>>, *)
(* Some(x) is <<x>>.  A Rust enum value is a record with a field "name"    *)
(* holding the variant and one field per payload.  SystemTime and Duration *)
(* are integers (ticks); lengths are integers (centimetres).               *)
(***************************************************************************)
EXTENDS Integers, Sequences, FiniteSets, TLC

VARIABLES
    filter,         \* the GameControllerStateFilter struct (self)
    filter_entry,   \* self.state and self.opponent_state when that cycle() was entered
    filter_locals,  \* the local did_receive_motion_in_set_penalty of that cycle()
    context,        \* the CycleContext of the most recent cycle()
    main_outputs,   \* Option<FilteredGameControllerState> of the most recent cycle()
    selector,       \* the MotionSelector struct (self)
    selector_entry, \* self as it was when the most recent cycle() was entered
    motion_context, \* the CycleContext of the most recent MotionSelector::cycle()
    motion_selection, \* Option<MotionSelection> of the most recent cycle()
    held_command,   \* Option<MotionCommand>: the command the behavior keeps requesting
    planner,        \* the StepPlanner struct (self)
    planner_entry,  \* self as it was when the most recent cycle() was entered
    planner_context, \* the CycleContext of the most recent StepPlanner::cycle()
    planner_outputs, \* what that cycle() returned and the locals it computed
    clamp_call,     \* a call of clamp_step_to_walk_volume: arguments and result
    receiver,       \* the SensorDataReceiver struct (self)
    receiver_previous, \* what the cycle() before the most recent one returned
    receiver_outputs, \* what the most recent SensorDataReceiver::cycle() returned
    hardware_clock, \* the SystemTime of the hardware interface
    hypothesis,     \* a BallHypothesis (self)
    hypothesis_entry, \* self as it was before the most recent operation on it
    hypothesis_call, \* the most recent operation on the hypothesis, its arguments
    kick,           \* Option<KickState>: the kick of the walking engine
    kick_entry,     \* the kick as it was before the most recent operation on it
    kick_call,      \* the most recent operation on the kick, and what it returned
    walking_mode,   \* walking_engine::mode::Mode
    walking_mode_entry, \* the mode as it was before the most recent command
    walking_call,   \* the most recent command to the mode and its Context
    behavior_call,  \* a call of kicking_ball::execute: arguments and result
    intersection_call, \* a call of intersects_line_segment: arguments and results
    start_call,     \* Option: the call of Runtime::start, where it is and its result
    communication,  \* the thread "communication": where it is, its locals, its result
    runtime_channel, \* the oneshot channel (runtime_sender, runtime_receiver)
    keep_running    \* the CancellationToken: TRUE once cancelled

filterVars == <<filter, filter_entry, filter_locals, context, main_outputs>>
motionVars == <<selector, selector_entry, motion_context, motion_selection,
                held_command>>
plannerVars == <<planner, planner_entry, planner_context, planner_outputs, clamp_call>>
receiverVars == <<receiver, receiver_previous, receiver_outputs, hardware_clock>>
hypothesisVars == <<hypothesis, hypothesis_entry, hypothesis_call>>
kickVars == <<kick, kick_entry, kick_call>>
engineVars == <<walking_mode, walking_mode_entry, walking_call>>
behaviorVars == <<behavior_call>>
geometryVars == <<intersection_call>>
runtimeVars == <<start_call, communication, runtime_channel, keep_running>>
restVars == <<receiverVars, hypothesisVars, kickVars, engineVars, behaviorVars,
              geometryVars, runtimeVars>>
vars == <<filter, filter_entry, filter_locals, context, main_outputs,
          selector, selector_entry, motion_context, motion_selection,
          held_command,
          planner, planner_entry, planner_context, planner_outputs, clamp_call,
          receiver, receiver_previous, receiver_outputs, hardware_clock,
          hypothesis, hypothesis_entry, hypothesis_call,
          kick, kick_entry, kick_call,
          walking_mode, walking_mode_entry, walking_call,
          behavior_call, intersection_call,
          start_call, communication, runtime_channel, keep_running>>

None == <<>>
Some(x) == <<x>>
is_some(o) == Len(o) = 1
is_none(o) == Len(o) = 0
unwrap(o) == o[1]
Abs(x) == IF x < 0 THEN -x ELSE x

(***************************************************************************)
(* Bounds of the model.                                                    *)
(***************************************************************************)
\* cycle start times run from 1 to MaxTime
MaxTime == 5
\* a cycle starts 1..MaxCycleDuration ticks after the previous one
MaxCycleDuration == 2

(***************************************************************************)
(* spl_network_messages and types: the values the filter reads and writes. *)
(***************************************************************************)
GameStates == {"Initial", "Ready", "Set", "Playing", "Finished", "Standby"}
GamePhases == {"Normal", "PenaltyShootout"}
Teams == {"Hulks", "Opponent"}
SubStates == {"KickIn", "CornerKick", "GoalKick", "PenaltyKick", "PushingFreeKick"}
\* Option<Penalty> of one player, by the payload-free variant name
NoPenalty == "NoPenalty"
Penalties == {"IllegalMotionInSet", "Manual"}
\* the players of a team; player_number is the robot's own number
PlayerNumbers == {1, 2}
player_number == 1

\* enum State
StateInitial == [name |-> "Initial"]
StateReady == [name |-> "Ready"]
StateSet == [name |-> "Set"]
StatePlaying == [name |-> "Playing"]
StateFinished == [name |-> "Finished"]
StateStandby == [name |-> "Standby"]
WhistleInSet(t) == [name |-> "WhistleInSet", time_when_whistle_was_detected |-> t]
WhistleInPlaying(t) == [name |-> "WhistleInPlaying", time_when_whistle_was_detected |-> t]
TentativeFinished(t) == [name |-> "TentativeFinished", time_when_finished_clicked |-> t]

\* enum FilteredGameState
FilteredPlaying(ball_is_free, kick_off) ==
    [name |-> "Playing", ball_is_free |-> ball_is_free, kick_off |-> kick_off]
Filtered(name) == [name |-> name]

\* Isometry2<Ground, Field> * Point2<Ground>: a half turn or none, then a translation
Transform(isometry, point) ==
    IF isometry.half_turn
    THEN <<isometry.translation[1] - point[1], isometry.translation[2] - point[2]>>
    ELSE <<isometry.translation[1] + point[1], isometry.translation[2] + point[2]>>

\* distance(a, b) > d, for d >= 0, on the squares
DistanceExceeds(a, b, d) ==
    (a[1] - b[1]) * (a[1] - b[1]) + (a[2] - b[2]) * (a[2] - b[2]) > d * d

\* Point2::default()
Origin == <<0, 0>>

(***************************************************************************)
(* Parameters: GameStateFilterParameters and FieldDimensions.              *)
(***************************************************************************)
field_dimensions == [length |-> 900, goal_inner_width |-> 150]

Config(playing, ready, controller, tentative) ==
    [ playing_message_delay |-> playing,
      ready_message_delay |-> ready,
      game_controller_controller_delay |-> controller,
      tentative_finish_duration |-> tentative,
      kick_off_grace_period |-> 1,
      whistle_acceptance_goal_distance |-> <<50, 50>>,
      distance_to_consider_ball_moved_in_kick_off |-> 30,
      duration_to_keep_observed_ball |-> 1,
      duration_to_keep_new_penalties |-> 1 ]

Configs == {Config(1, 2, 1, 2), Config(2, 1, 1, 3)}

(***************************************************************************)
(* game_controller_state_filter.rs: the pure functions.                    *)
(***************************************************************************)
\* the players with a penalty now that had none in the last snapshot
penalty_diff(last, current) ==
    [player \in {p \in PlayerNumbers : current[p] # NoPenalty /\ last[p] = NoPenalty}
        |-> current[player]]

\* HashMap::default()
no_penalties == [player \in {} |-> NoPenalty]

from_game_state(game_state) == [name |-> game_state]

\* the arms (State::Finished, _)
finished_arms(game_state, game_phase) ==
    IF game_state = "Initial" THEN StateInitial
    ELSE IF game_phase = "PenaltyShootout" THEN StateSet ELSE StateFinished

\* mutant: the tentative period must be exceeded, not reached
tentative_finished_arms_late(time_when_finished_clicked, game_state, cycle_start_time, config) ==
    IF /\ game_state = "Finished"
       /\ cycle_start_time - time_when_finished_clicked
            > config.tentative_finish_duration
    THEN StateFinished
    ELSE IF game_state = "Finished"
         THEN TentativeFinished(time_when_finished_clicked)
         ELSE from_game_state(game_state)

\* the arms (State::TentativeFinished { .. }, _)
tentative_finished_arms(time_when_finished_clicked, game_state, cycle_start_time, config) ==
    IF /\ game_state = "Finished"
       /\ cycle_start_time - time_when_finished_clicked
            >= config.tentative_finish_duration
    THEN StateFinished
    ELSE IF game_state = "Finished"
         THEN TentativeFinished(time_when_finished_clicked)
         ELSE from_game_state(game_state)

\* mutant: a whistle in Set goes to Playing at once
set_arm_without_wait(is_whistle_detected, cycle_start_time) ==
    IF is_whistle_detected THEN StatePlaying ELSE StateSet

\* the arm (State::Set, GameState::Set)
set_arm(is_whistle_detected, cycle_start_time) ==
    IF is_whistle_detected THEN WhistleInSet(cycle_start_time) ELSE StateSet

\* mutant: the delay must be exceeded, not reached
whistle_in_set_arms_late(time_when_whistle_was_detected, cycle_start_time, config, did_receive_motion_in_set_penalty) ==
    IF did_receive_motion_in_set_penalty THEN StateSet
    ELSE IF cycle_start_time - time_when_whistle_was_detected
                <= config.playing_message_delay
                    + config.game_controller_controller_delay
         THEN WhistleInSet(time_when_whistle_was_detected)
         ELSE StatePlaying

\* mutant: a motion-in-set penalty does not revert to Set
whistle_in_set_arms_ignoring_penalty(time_when_whistle_was_detected, cycle_start_time, config, did_receive_motion_in_set_penalty) ==
    IF cycle_start_time - time_when_whistle_was_detected
            < config.playing_message_delay + config.game_controller_controller_delay
    THEN WhistleInSet(time_when_whistle_was_detected)
    ELSE StatePlaying

\* the arms (State::WhistleInSet { .. }, GameState::Set)
whistle_in_set_arms(time_when_whistle_was_detected, cycle_start_time, config, did_receive_motion_in_set_penalty) ==
    IF did_receive_motion_in_set_penalty THEN StateSet
    ELSE IF cycle_start_time - time_when_whistle_was_detected
                < config.playing_message_delay
                    + config.game_controller_controller_delay
         THEN WhistleInSet(time_when_whistle_was_detected)
         ELSE StatePlaying

\* the arm (State::Playing, GameState::Playing)
playing_arm(is_whistle_detected, cycle_start_time, ball_detected_far_from_any_goal) ==
    IF is_whistle_detected /\ ~ball_detected_far_from_any_goal
    THEN WhistleInPlaying(cycle_start_time) ELSE StatePlaying

\* the arm (State::WhistleInPlaying { .. }, GameState::Playing)
whistle_in_playing_arm(time_when_whistle_was_detected, cycle_start_time, config) ==
    IF cycle_start_time - time_when_whistle_was_detected
            < config.ready_message_delay + config.game_controller_controller_delay
    THEN WhistleInPlaying(time_when_whistle_was_detected)
    ELSE StatePlaying

\* mutant: Standby is left for Ready without the referee's signal
standby_arm_without_signal(visual_referee_proceed_to_ready) == StateReady

\* the arm (State::Standby, GameState::Standby)
standby_arm(visual_referee_proceed_to_ready) ==
    IF visual_referee_proceed_to_ready THEN StateReady ELSE StateStandby

next_filtered_state(current_state, game_controller_state, is_whistle_detected, cycle_start_time, config, ball_detected_far_from_any_goal, visual_referee_proceed_to_ready, did_receive_motion_in_set_penalty) ==
    LET game_state == game_controller_state.game_state
        name == current_state.name
    IN  \* the match arms in source order: the first that matches is taken
        IF name = "Finished" THEN
            finished_arms(game_state, game_controller_state.game_phase)
        ELSE IF name = "TentativeFinished" THEN
            tentative_finished_arms(current_state.time_when_finished_clicked,
                                    game_state, cycle_start_time, config)
        ELSE IF game_state = "Finished" THEN TentativeFinished(cycle_start_time)
        ELSE IF name = "Standby" /\ game_state = "Standby" THEN
            standby_arm(visual_referee_proceed_to_ready)
        ELSE IF name = "Ready" /\ game_state = "Standby" THEN StateReady
        ELSE IF \/ name \in {"Initial", "Ready", "Standby"}
                \/ /\ name \in {"Set", "WhistleInSet"}
                   /\ game_state \in {"Initial", "Ready", "Playing", "Standby"}
                \/ /\ name \in {"Playing", "WhistleInPlaying"}
                   /\ game_state \in {"Initial", "Ready", "Set", "Standby"} THEN
            from_game_state(game_state)
        ELSE IF name = "Set" THEN \* and game_state = "Set"
            set_arm(is_whistle_detected, cycle_start_time)
        ELSE IF name = "WhistleInSet" THEN \* and game_state = "Set"
            whistle_in_set_arms(current_state.time_when_whistle_was_detected,
                                cycle_start_time, config,
                                did_receive_motion_in_set_penalty)
        ELSE IF name = "Playing" THEN \* and game_state = "Playing"
            playing_arm(is_whistle_detected, cycle_start_time,
                        ball_detected_far_from_any_goal)
        ELSE \* (State::WhistleInPlaying { .. }, GameState::Playing)
            whistle_in_playing_arm(current_state.time_when_whistle_was_detected,
                                   cycle_start_time, config)

\* mutant: far only when both coordinates are far
ball_detected_far_in_both_axes(ground_to_field, ball, dimensions, whistle_acceptance_goal_distance) ==
    IF is_some(ball)
    THEN LET ball_on_field == Transform(ground_to_field, unwrap(ball).position)
         IN  /\ 2 * Abs(ball_on_field[1])
                    < dimensions.length - 2 * whistle_acceptance_goal_distance[1]
             /\ 2 * Abs(ball_on_field[2])
                    > dimensions.goal_inner_width
                        + 2 * whistle_acceptance_goal_distance[2]
    ELSE FALSE

\* x.abs() < length / 2 - dx  ||  y.abs() > goal_inner_width / 2 + dy, times two
ball_detected_far_from_any_goal(ground_to_field, ball, dimensions, whistle_acceptance_goal_distance) ==
    IF is_some(ball)
    THEN LET ball_on_field == Transform(ground_to_field, unwrap(ball).position)
         IN  \/ 2 * Abs(ball_on_field[1])
                    < dimensions.length - 2 * whistle_acceptance_goal_distance[1]
             \/ 2 * Abs(ball_on_field[2])
                    > dimensions.goal_inner_width
                        + 2 * whistle_acceptance_goal_distance[2]
    ELSE FALSE

is_in_grace_period(cycle_start_time, start_time, grace_period) ==
    cycle_start_time - start_time < grace_period

\* mutant: Finished is shown in every game phase
finished_game_state_in_every_phase(game_phase) == Filtered("Finished")

\* the arm State::Finished of construct_filtered_game_state_for_team
finished_game_state(game_phase) ==
    IF game_phase = "PenaltyShootout" THEN Filtered("Set") ELSE Filtered("Finished")

construct_filtered_game_state_for_team(self_state, game_controller_state, team, cycle_start_time, ball_detected_far_from_kick_off_point, config, visual_referee_proceed_to_ready, filtered_kicking_team) ==
    LET is_in_sub_state == is_some(game_controller_state.sub_state)
        opponent_is_kicking_team == filtered_kicking_team # Some(team)
        name == self_state.name
    IN  CASE name = "Initial" -> Filtered("Initial")
          [] name = "Standby" ->
                IF visual_referee_proceed_to_ready
                THEN Filtered("Ready") ELSE Filtered("Standby")
          [] name = "Ready" -> Filtered("Ready")
          [] name = "Set" -> Filtered("Set")
          [] name = "WhistleInSet" ->
                LET kick_off_grace_period ==
                        is_in_grace_period(
                            cycle_start_time,
                            self_state.time_when_whistle_was_detected,
                            config.kick_off_grace_period
                                + config.game_controller_controller_delay)
                    opponent_kick_off ==
                        /\ opponent_is_kicking_team
                        /\ kick_off_grace_period
                        /\ ~ball_detected_far_from_kick_off_point
                    opponent_sub_state == opponent_is_kicking_team /\ is_in_sub_state
                IN  FilteredPlaying(~opponent_kick_off /\ ~opponent_sub_state,
                                    ~is_in_sub_state)
          [] name = "Playing" ->
                FilteredPlaying(~(is_in_sub_state /\ opponent_is_kicking_team), FALSE)
          [] name = "WhistleInPlaying" -> Filtered("Ready")
          [] name = "Finished" -> finished_game_state(game_controller_state.game_phase)
          [] name = "TentativeFinished" -> Filtered("Set")

(***************************************************************************)
(* game_controller_state_filter.rs: the methods of the node.  A method     *)
(* that takes &mut self is an operator to [ret |-> result, self |-> self   *)
(* after the call].                                                        *)
(***************************************************************************)
\* mutant: a ball on the centre line counts as in the own half
is_strictly_positive(x) == x > 0

\* f32::is_sign_positive of a coordinate
is_sign_positive(x) == x >= 0

find_kicking_team(self, ctx, new_own_penalties_last_cycle, new_opponent_penalties_last_cycle, detected_free_kick_kicking_team) ==
    LET game_controller_state == ctx.game_controller_state
        start_time == ctx.cycle_time.start_time
        sub_state == game_controller_state.sub_state
    IN  IF is_some(game_controller_state.kicking_team)
        THEN [ret |-> game_controller_state.kicking_team, self |-> self]
        ELSE
        LET observed ==
                IF is_some(ctx.last_ball_state)
                THEN ctx.last_ball_state ELSE self.last_observed_ball
            ball_is_in_opponent_half ==
                IF is_some(observed)
                THEN Some(is_sign_positive(unwrap(observed).ball_in_field[1]))
                ELSE None
            last_observed_ball ==
                IF /\ is_some(observed)
                   /\ sub_state # Some("PenaltyKick")
                   /\ start_time - unwrap(observed).time
                        > ctx.config.duration_to_keep_observed_ball
                THEN None ELSE observed
            hulk_penalized ==
                IF DOMAIN new_own_penalties_last_cycle # {}
                THEN Some(start_time) ELSE self.last_time_hulk_was_penalized
            last_time_hulk_was_penalized ==
                IF /\ is_some(hulk_penalized)
                   /\ start_time - unwrap(hulk_penalized)
                        > ctx.config.duration_to_keep_new_penalties
                THEN None ELSE hulk_penalized
            opponent_penalized ==
                IF DOMAIN new_opponent_penalties_last_cycle # {}
                THEN Some(start_time) ELSE self.last_time_opponent_was_penalized
            last_time_opponent_was_penalized ==
                IF /\ is_some(opponent_penalized)
                   /\ start_time - unwrap(opponent_penalized)
                        > ctx.config.duration_to_keep_new_penalties
                THEN None ELSE opponent_penalized
            \* `ball_is_in_opponent_half?` returns None from the function
            by_half(if_opponent_half, otherwise) ==
                IF is_none(ball_is_in_opponent_half) THEN None
                ELSE IF unwrap(ball_is_in_opponent_half)
                     THEN Some(if_opponent_half) ELSE Some(otherwise)
            ret ==
                IF sub_state = Some("CornerKick") THEN by_half("Hulks", "Opponent")
                ELSE IF sub_state = Some("GoalKick") THEN by_half("Opponent", "Hulks")
                ELSE IF sub_state = Some("PenaltyKick") THEN by_half("Hulks", "Opponent")
                ELSE IF /\ sub_state = Some("PushingFreeKick")
                        /\ is_some(last_time_hulk_was_penalized) THEN Some("Opponent")
                ELSE IF /\ sub_state = Some("PushingFreeKick")
                        /\ is_some(last_time_opponent_was_penalized) THEN Some("Hulks")
                ELSE IF /\ sub_state = Some("KickIn")
                        /\ is_some(detected_free_kick_kicking_team)
                     THEN detected_free_kick_kicking_team
                ELSE IF /\ game_controller_state.game_state = "Playing"
                        /\ is_none(sub_state) THEN
                    IF is_none(ball_is_in_opponent_half) THEN None
                    ELSE IF ctx.filtered_whistle.is_detected
                         THEN by_half("Hulks", "Opponent") ELSE None
                ELSE None
        IN  [ret |-> ret,
             self |-> [self EXCEPT
                !.last_observed_ball = last_observed_ball,
                !.last_time_hulk_was_penalized = last_time_hulk_was_penalized,
                !.last_time_opponent_was_penalized = last_time_opponent_was_penalized]]

\* mutant: the opponent state does not hear the whistle
filter_game_states_deaf_opponent(self, ctx, did_receive_motion_in_set_penalty, filtered_kicking_team) ==
    LET ground_to_field == ctx.ground_to_field
        ball_position == ctx.ball_position
        config == ctx.config
        game_controller_state == ctx.game_controller_state
        start_time == ctx.cycle_time.start_time
        far_from_any_goal ==
            /\ is_some(ground_to_field)
            /\ ball_detected_far_from_any_goal(
                    unwrap(ground_to_field), ball_position, ctx.field_dimensions,
                    config.whistle_acceptance_goal_distance)
        state ==
            next_filtered_state(
                self.state, game_controller_state, ctx.filtered_whistle.is_detected,
                start_time, config, far_from_any_goal,
                ctx.visual_referee_proceed_to_ready,
                did_receive_motion_in_set_penalty)
        opponent_state ==
            next_filtered_state(
                self.opponent_state, game_controller_state,
                FALSE, start_time, config,
                far_from_any_goal, ctx.visual_referee_proceed_to_ready,
                did_receive_motion_in_set_penalty)
        motion_in_set ==
            game_controller_state.penalties[ctx.player_number] = "IllegalMotionInSet"
        whistle_in_set_ball_position ==
            IF state.name = "Playing" \/ motion_in_set
            THEN None ELSE self.whistle_in_set_ball_position
        ball_detected_far_from_kick_off_point ==
            IF is_some(ground_to_field) /\ is_some(ball_position)
            THEN LET absolute_ball_position ==
                        Transform(unwrap(ground_to_field), unwrap(ball_position).position)
                     reference_ball_position ==
                        IF is_some(whistle_in_set_ball_position)
                        THEN unwrap(whistle_in_set_ball_position) ELSE Origin
                 IN  DistanceExceeds(
                        reference_ball_position, absolute_ball_position,
                        config.distance_to_consider_ball_moved_in_kick_off)
            ELSE FALSE
    IN  [ret |->
            [own |-> construct_filtered_game_state_for_team(
                        state, game_controller_state, "Hulks", start_time,
                        ball_detected_far_from_kick_off_point, config,
                        ctx.visual_referee_proceed_to_ready, filtered_kicking_team),
             opponent |-> construct_filtered_game_state_for_team(
                        opponent_state, game_controller_state, "Opponent", start_time,
                        ball_detected_far_from_kick_off_point, config,
                        ctx.visual_referee_proceed_to_ready, filtered_kicking_team)],
         self |-> [self EXCEPT
            !.state = state,
            !.opponent_state = opponent_state,
            !.whistle_in_set_ball_position = whistle_in_set_ball_position]]

filter_game_states(self, ctx, did_receive_motion_in_set_penalty, filtered_kicking_team) ==
    LET ground_to_field == ctx.ground_to_field
        ball_position == ctx.ball_position
        config == ctx.config
        game_controller_state == ctx.game_controller_state
        start_time == ctx.cycle_time.start_time
        far_from_any_goal ==
            /\ is_some(ground_to_field)
            /\ ball_detected_far_from_any_goal(
                    unwrap(ground_to_field), ball_position, ctx.field_dimensions,
                    config.whistle_acceptance_goal_distance)
        state ==
            next_filtered_state(
                self.state, game_controller_state, ctx.filtered_whistle.is_detected,
                start_time, config, far_from_any_goal,
                ctx.visual_referee_proceed_to_ready,
                did_receive_motion_in_set_penalty)
        opponent_state ==
            next_filtered_state(
                self.opponent_state, game_controller_state,
                ctx.filtered_whistle.is_detected, start_time, config,
                far_from_any_goal, ctx.visual_referee_proceed_to_ready,
                did_receive_motion_in_set_penalty)
        \* lines 188-194 compute the ball's field position and drop it: no effect
        motion_in_set ==
            game_controller_state.penalties[ctx.player_number] = "IllegalMotionInSet"
        whistle_in_set_ball_position ==
            IF state.name = "Playing" \/ motion_in_set
            THEN None ELSE self.whistle_in_set_ball_position
        ball_detected_far_from_kick_off_point ==
            IF is_some(ground_to_field) /\ is_some(ball_position)
            THEN LET absolute_ball_position ==
                        Transform(unwrap(ground_to_field), unwrap(ball_position).position)
                     reference_ball_position ==
                        IF is_some(whistle_in_set_ball_position)
                        THEN unwrap(whistle_in_set_ball_position) ELSE Origin
                 IN  DistanceExceeds(
                        reference_ball_position, absolute_ball_position,
                        config.distance_to_consider_ball_moved_in_kick_off)
            ELSE FALSE
    IN  [ret |->
            [own |-> construct_filtered_game_state_for_team(
                        state, game_controller_state, "Hulks", start_time,
                        ball_detected_far_from_kick_off_point, config,
                        ctx.visual_referee_proceed_to_ready, filtered_kicking_team),
             opponent |-> construct_filtered_game_state_for_team(
                        opponent_state, game_controller_state, "Opponent", start_time,
                        ball_detected_far_from_kick_off_point, config,
                        ctx.visual_referee_proceed_to_ready, filtered_kicking_team)],
         self |-> [self EXCEPT
            !.state = state,
            !.opponent_state = opponent_state,
            !.whistle_in_set_ball_position = whistle_in_set_ball_position]]

\* any(|(_, penalty)| matches!(penalty, Penalty::IllegalMotionInSet { .. }))
any_motion_in_set(new_penalties) ==
    \E player \in DOMAIN new_penalties : new_penalties[player] = "IllegalMotionInSet"

\* GameControllerStateFilter::cycle
filter_cycle(self, ctx) ==
    LET game_controller_state == ctx.game_controller_state
        last == self.last_game_controller_state
        new_own_penalties_last_cycle ==
            IF is_some(last)
            THEN penalty_diff(unwrap(last).penalties, game_controller_state.penalties)
            ELSE no_penalties
        new_opponent_penalties_last_cycle ==
            IF is_some(last)
            THEN penalty_diff(unwrap(last).opponent_penalties,
                              game_controller_state.opponent_penalties)
            ELSE no_penalties
        did_receive_motion_in_set_penalty ==
            \/ any_motion_in_set(new_own_penalties_last_cycle)
            \/ any_motion_in_set(new_opponent_penalties_last_cycle)
        kicking ==
            find_kicking_team(self, ctx, new_own_penalties_last_cycle,
                              new_opponent_penalties_last_cycle,
                              ctx.detected_free_kick_kicking_team)
        game_states ==
            filter_game_states(kicking.self, ctx, did_receive_motion_in_set_penalty,
                               kicking.ret)
    IN  [ret |-> Some([
            game_state |-> game_states.ret.own,
            opponent_game_state |-> game_states.ret.opponent,
            game_phase |-> game_controller_state.game_phase,
            kicking_team |-> kicking.ret,
            penalties |-> game_controller_state.penalties,
            sub_state |-> game_controller_state.sub_state,
            new_own_penalties_last_cycle |-> new_own_penalties_last_cycle,
            new_opponent_penalties_last_cycle |-> new_opponent_penalties_last_cycle]),
         locals |->
            [did_receive_motion_in_set_penalty |-> did_receive_motion_in_set_penalty],
         self |-> [game_states.self EXCEPT
            !.last_game_controller_state = Some(game_controller_state)]]

\* GameControllerStateFilter::new
filter_new ==
    [ last_game_controller_state |-> None,
      state |-> StateInitial,
      opponent_state |-> StateInitial,
      whistle_in_set_ball_position |-> None,
      last_observed_ball |-> None,
      last_time_hulk_was_penalized |-> None,
      last_time_opponent_was_penalized |-> None ]

(***************************************************************************)
(* types/src/motion_selection.rs                                           *)
(***************************************************************************)
MotionTypes ==
    {"Animation", "AnimationStiff", "ArmsUpSquat", "ArmsUpStand", "Dispatching",
     "FallProtection", "Initial", "JumpLeft", "JumpRight", "CenterJump", "Penalized",
     "SitDown", "Stand", "StandUpBack", "StandUpFront", "StandUpSitting", "Unstiff",
     "Walk", "WideStance", "KeeperJumpLeft", "KeeperJumpRight"}

is_standup_motion(motion) == motion \in {"StandUpBack", "StandUpFront"}

is_stable(motion) == motion \in {"Stand", "Walk", "Initial", "Penalized"}

\* MotionSafeExits::fill
fill(value) == [motion \in MotionTypes |-> value]

\* MotionSafeExits::default
default_safe_exits ==
    [motion \in MotionTypes |->
        motion \in {"Animation", "AnimationStiff", "ArmsUpSquat", "ArmsUpStand",
                    "FallProtection", "Initial", "Penalized", "Stand", "Unstiff"}]

(***************************************************************************)
(* control/src/motion/motion_selector.rs                                   *)
(***************************************************************************)
JumpDirections == {"Left", "Right", "Center"}
Kinds == {"FacingDown", "FacingUp", "Sitting"}

\* enum MotionCommand, without the payloads the selector ignores
MotionCommands ==
    {[name |-> n] : n \in {"ArmsUpSquat", "ArmsUpStand", "FallProtection", "Initial",
                           "Penalized", "SitDown", "Stand", "Unstiff", "Walk",
                           "InWalkKick"}}
    \cup {[name |-> "Jump", direction |-> d] : d \in JumpDirections}
    \cup {[name |-> "KeeperMotion", direction |-> d] : d \in JumpDirections}
    \cup {[name |-> "StandUp", kind |-> k] : k \in Kinds}
    \cup {[name |-> "Animation", stiff |-> b] : b \in BOOLEAN}

motion_type_from_command(command) ==
    CASE command.name = "Jump" ->
            IF command.direction = "Left" THEN "JumpLeft"
            ELSE IF command.direction = "Right" THEN "JumpRight"
            ELSE "CenterJump"
      [] command.name = "StandUp" ->
            IF command.kind = "FacingDown" THEN "StandUpFront"
            ELSE IF command.kind = "FacingUp" THEN "StandUpBack"
            ELSE "StandUpSitting"
      [] command.name = "KeeperMotion" ->
            IF command.direction = "Left" THEN "KeeperJumpLeft"
            ELSE IF command.direction = "Right" THEN "KeeperJumpRight"
            ELSE "WideStance"
      [] command.name = "Animation" ->
            IF command.stiff THEN "AnimationStiff" ELSE "Animation"
      [] command.name = "InWalkKick" -> "Walk"
      [] command.name \in {"ArmsUpSquat", "ArmsUpStand", "FallProtection", "Initial",
                           "Penalized", "SitDown", "Stand", "Unstiff", "Walk"} ->
            command.name

\* The match of transition_motion, its arms grouped in source order.  A group
\* is Some(motion) when one of its arms matches and None when none does.

\* mutant: Unstiff is entered at once with ground contact too
unstiff_arms_at_once(from, to, motion_safe_to_exit, has_ground_contact) ==
    IF to = "Unstiff" THEN Some("Unstiff") ELSE None

\* lines 122-124: Unstiff is requested
unstiff_arms(from, to, motion_safe_to_exit, has_ground_contact) ==
    IF from = "SitDown" /\ motion_safe_to_exit /\ to = "Unstiff" THEN Some("Unstiff")
    ELSE IF to = "Unstiff" /\ ~has_ground_contact THEN Some("Unstiff")
    ELSE IF /\ from = "Dispatching" /\ motion_safe_to_exit
            /\ to = "Unstiff" /\ has_ground_contact THEN Some("SitDown")
    ELSE None

\* mutant: the arm that keeps StandUpSitting under FallProtection is missing
fall_protection_arms_without_sitting(from, to, motion_safe_to_exit) ==
    IF /\ to = "FallProtection"
       /\ from \in {"StandUpFront", "StandUpBack", "WideStance", "JumpLeft",
                    "JumpRight", "CenterJump", "ArmsUpStand"}
    THEN Some(from)
    ELSE IF /\ from \in {"StandUpFront", "StandUpBack", "StandUpSitting"}
            /\ motion_safe_to_exit /\ to = from THEN Some("Dispatching")
    ELSE IF to = "FallProtection" THEN Some("FallProtection")
    ELSE None

\* lines 125-140: FallProtection is requested, or a stand-up is requested again
fall_protection_arms(from, to, motion_safe_to_exit) ==
    IF /\ to = "FallProtection"
       /\ from \in {"StandUpFront", "StandUpBack", "WideStance", "JumpLeft",
                    "JumpRight", "CenterJump", "StandUpSitting", "ArmsUpStand"}
    THEN Some(from)
    ELSE IF /\ from \in {"StandUpFront", "StandUpBack", "StandUpSitting"}
            /\ motion_safe_to_exit /\ to = from THEN Some("Dispatching")
    ELSE IF to = "FallProtection" THEN Some("FallProtection")
    ELSE None

\* mutant: a keeper motion is entered from every motion, safe to exit or not
keeper_arms_unguarded(from, to, motion_safe_to_exit) ==
    IF to \in {"WideStance", "KeeperJumpRight", "KeeperJumpLeft"}
    THEN Some(to) ELSE None

\* lines 141-154: a keeper motion is requested
keeper_arms(from, to, motion_safe_to_exit) ==
    IF to \in {"WideStance", "KeeperJumpRight", "KeeperJumpLeft"}
       /\ (from = "Walk" \/ motion_safe_to_exit)
    THEN Some(to) ELSE None

\* mutant: ArmsUpStand is not kept in the air
jump_arms_on_the_ground(from, to, has_ground_contact) ==
    IF to = "CenterJump" THEN Some("CenterJump")
    ELSE IF from = "ArmsUpSquat" /\ to \in {"JumpRight", "JumpLeft"} THEN Some(to)
    ELSE None

\* lines 155-158: jumps, and ArmsUpStand in the air
jump_arms(from, to, has_ground_contact) ==
    IF to = "CenterJump" THEN Some("CenterJump")
    ELSE IF from = "ArmsUpSquat" /\ to \in {"JumpRight", "JumpLeft"} THEN Some(to)
    ELSE IF from = "ArmsUpStand" /\ ~has_ground_contact THEN Some("ArmsUpStand")
    ELSE None

\* mutant: Stand is left for any stable motion without dispatching
direct_arms_between_stable(from, to, motion_safe_to_exit) ==
    IF from = "Dispatching" /\ motion_safe_to_exit THEN Some(to)
    ELSE IF from = "Stand" /\ is_stable(to) THEN Some(to)
    ELSE IF from = "Walk" /\ to = "Stand" THEN Some("Stand")
    ELSE IF /\ from \in {"Unstiff", "AnimationStiff"}
            /\ motion_safe_to_exit /\ to = "Animation" THEN Some("Animation")
    ELSE IF from = "Animation" /\ motion_safe_to_exit /\ to = "AnimationStiff"
         THEN Some("AnimationStiff")
    ELSE None

\* lines 159-165: leaving Dispatching, Stand <-> Walk, and the animations
direct_arms(from, to, motion_safe_to_exit) ==
    IF from = "Dispatching" /\ motion_safe_to_exit THEN Some(to)
    ELSE IF from = "Stand" /\ to = "Walk" THEN Some("Walk")
    ELSE IF from = "Walk" /\ to = "Stand" THEN Some("Stand")
    ELSE IF /\ from \in {"Unstiff", "AnimationStiff"}
            /\ motion_safe_to_exit /\ to = "Animation" THEN Some("Animation")
    ELSE IF from = "Animation" /\ motion_safe_to_exit /\ to = "AnimationStiff"
         THEN Some("AnimationStiff")
    ELSE None

\* mutant: a motion that is safe to exit is left for the requested one directly
dispatch_arms_direct(from, to, motion_safe_to_exit) ==
    IF motion_safe_to_exit /\ from # to THEN to ELSE from

\* lines 166-167: through Dispatching when safe to exit, else stay
dispatch_arms(from, to, motion_safe_to_exit) ==
    IF motion_safe_to_exit /\ from # to THEN "Dispatching" ELSE from

transition_motion(from, to, motion_safe_to_exit, has_ground_contact) ==
    LET unstiff == unstiff_arms(from, to, motion_safe_to_exit, has_ground_contact)
        fall_protection == fall_protection_arms(from, to, motion_safe_to_exit)
        keeper == keeper_arms(from, to, motion_safe_to_exit)
        jump == jump_arms(from, to, has_ground_contact)
        direct == direct_arms(from, to, motion_safe_to_exit)
    IN  IF is_some(unstiff) THEN unwrap(unstiff)
        ELSE IF is_some(fall_protection) THEN unwrap(fall_protection)
        ELSE IF is_some(keeper) THEN unwrap(keeper)
        ELSE IF is_some(jump) THEN unwrap(jump)
        ELSE IF is_some(direct) THEN unwrap(direct)
        ELSE dispatch_arms(from, to, motion_safe_to_exit)

stand_up_counting(last_motion, current_motion, stand_up_count) ==
    IF ~is_standup_motion(last_motion) /\ is_standup_motion(current_motion)
    THEN stand_up_count + 1
    ELSE IF is_stable(current_motion) THEN 0
    ELSE stand_up_count

\* mutant: the motion dispatched to is always the requested one
selector_cycle_reporting_request(self, ctx) ==
    LET motion_safe_to_exit == ctx.motion_safe_exits[self.last_motion]
        requested_motion == motion_type_from_command(ctx.motion_command)
        current_motion ==
            transition_motion(self.last_motion, requested_motion,
                              motion_safe_to_exit, ctx.has_ground_contact)
        stand_up_count ==
            stand_up_counting(self.last_motion, current_motion, self.stand_up_count)
        dispatching_motion ==
            IF current_motion = "Dispatching" THEN Some(requested_motion) ELSE None
    IN  [ret |-> Some([current_motion |-> current_motion,
                       dispatching_motion |-> dispatching_motion]),
         self |-> [last_motion |-> current_motion,
                   stand_up_count |-> stand_up_count]]

\* MotionSelector::cycle
selector_cycle(self, ctx) ==
    LET motion_safe_to_exit == ctx.motion_safe_exits[self.last_motion]
        requested_motion == motion_type_from_command(ctx.motion_command)
        current_motion ==
            transition_motion(self.last_motion, requested_motion,
                              motion_safe_to_exit, ctx.has_ground_contact)
        stand_up_count ==
            stand_up_counting(self.last_motion, current_motion, self.stand_up_count)
        dispatching_motion ==
            IF current_motion = "Dispatching"
            THEN IF requested_motion = "Unstiff"
                 THEN Some("SitDown") ELSE Some(requested_motion)
            ELSE None
    IN  [ret |-> Some([current_motion |-> current_motion,
                       dispatching_motion |-> dispatching_motion]),
         self |-> [last_motion |-> current_motion,
                   stand_up_count |-> stand_up_count]]

\* MotionSelector::new
selector_new == [last_motion |-> "Unstiff", stand_up_count |-> 0]

(***************************************************************************)
(* f32 arithmetic of the step planner, in fixed point: a value v stands    *)
(* for v / Unit (metres, radians, ratios), and every operation rounds its  *)
(* exact result to the nearest representable value.                        *)
(***************************************************************************)
Unit == 1000
\* std::f32::consts::PI
Pi == 3142

Sign(x) == IF x < 0 THEN -1 ELSE 1

\* a / b for b > 0, rounded to the nearest integer, halves away from zero
DivRound(a, b) == Sign(a) * ((2 * Abs(a) + b) \div (2 * b))

\* a * b and a / b on f32
FMul(a, b) == DivRound(a * b, Unit)
FDiv(a, b) == DivRound(Sign(b) * a * Unit, Abs(b))

\* the largest r in lo..hi with r * r <= m
RECURSIVE SqrtBetween(_, _, _)
SqrtBetween(m, lo, hi) ==
    IF lo >= hi THEN lo
    ELSE LET mid == (lo + hi + 1) \div 2
         IN  IF mid * mid <= m
             THEN SqrtBetween(m, mid, hi) ELSE SqrtBetween(m, lo, mid - 1)

\* f32::sqrt, rounded to nearest
FSqrt(x) ==
    LET m == x * Unit
        r == SqrtBetween(m, 0, 46340)
    IN  IF m - r * r > r THEN r + 1 ELSE r

\* f32::powf for the exponents 1, 2 and 1/2
powf(x, exponent) ==
    IF exponent = Unit THEN x
    ELSE IF exponent = 2 * Unit THEN FMul(x, x)
    ELSE FSqrt(x)

\* f32::clamp
clamp(x, min, max) == IF x < min THEN min ELSE IF x > max THEN max ELSE x

(***************************************************************************)
(* step_planner.rs: Step and the walk volume.                              *)
(***************************************************************************)
Step(forward, left, turn) == [forward |-> forward, left |-> left, turn |-> turn]
StepDefault == Step(0, 0, 0)
StepAdd(a, b) == Step(a.forward + b.forward, a.left + b.left, a.turn + b.turn)

\* the three ratios both volume functions start from
normalized_request(request, max_step_size, max_step_size_backwards, max_turn_left, max_turn_right) ==
    LET is_walking_forward == is_sign_positive(request.forward)
        max_forward ==
            IF is_walking_forward THEN max_step_size.forward ELSE max_step_size_backwards
    IN  [ x |-> FDiv(request.forward, max_forward),
          y |-> FDiv(request.left, max_step_size.left),
          angle |-> IF is_sign_positive(request.turn)
                    THEN FDiv(request.turn, max_turn_right)
                    ELSE FDiv(request.turn, max_turn_left) ]

\* Some(volume), or None where assert!(angle.abs() <= 1.0) panics
calculate_walk_volume(request, max_step_size, max_step_size_backwards, translation_exponent, rotation_exponent, max_turn_left, max_turn_right) ==
    LET n == normalized_request(request, max_step_size, max_step_size_backwards,
                                max_turn_left, max_turn_right)
    IN  IF Abs(n.angle) > Unit THEN None
        ELSE Some(powf(powf(Abs(n.x), translation_exponent)
                            + powf(Abs(n.y), translation_exponent),
                       FDiv(rotation_exponent, translation_exponent))
                  + powf(Abs(n.angle), rotation_exponent))

\* mutant: a backward step is scaled against the forward maximum
calculate_max_step_size_in_walk_volume_forward_only(request, max_step_size, max_step_size_backwards, translation_exponent, rotation_exponent, max_turn_left, max_turn_right) ==
    LET n == normalized_request(request, max_step_size, max_step_size.forward,
                                max_turn_left, max_turn_right)
        scale ==
            powf(FDiv(powf(Unit - powf(Abs(n.angle), rotation_exponent),
                           FDiv(translation_exponent, rotation_exponent)),
                      powf(Abs(n.x), translation_exponent)
                        + powf(Abs(n.y), translation_exponent)),
                 FDiv(Unit, translation_exponent))
    IN  <<FMul(request.forward, scale), FMul(request.left, scale)>>

\* (forward, left) scaled onto the surface of the walk volume
calculate_max_step_size_in_walk_volume(request, max_step_size, max_step_size_backwards, translation_exponent, rotation_exponent, max_turn_left, max_turn_right) ==
    LET n == normalized_request(request, max_step_size, max_step_size_backwards,
                                max_turn_left, max_turn_right)
        scale ==
            powf(FDiv(powf(Unit - powf(Abs(n.angle), rotation_exponent),
                           FDiv(translation_exponent, rotation_exponent)),
                      powf(Abs(n.x), translation_exponent)
                        + powf(Abs(n.y), translation_exponent)),
                 FDiv(Unit, translation_exponent))
    IN  <<FMul(request.forward, scale), FMul(request.left, scale)>>

\* mutant: the turn of the request is returned as it came
clamp_step_to_walk_volume_unclamped_turn(request, max_step_size, max_step_size_backwards, translation_exponent, rotation_exponent, max_turn_left, max_turn_right) ==
    LET clamped ==
            Step(request.forward, request.left,
                 clamp(request.turn, max_turn_left, max_turn_right))
        volume ==
            calculate_walk_volume(clamped, max_step_size, max_step_size_backwards,
                                  translation_exponent, rotation_exponent,
                                  max_turn_left, max_turn_right)
    IN  IF is_none(volume) THEN None
        ELSE IF unwrap(volume) <= Unit THEN Some(request)
        ELSE LET scaled ==
                    calculate_max_step_size_in_walk_volume(
                        clamped, max_step_size, max_step_size_backwards,
                        translation_exponent, rotation_exponent,
                        max_turn_left, max_turn_right)
             IN  Some(Step(scaled[1], scaled[2], request.turn))

\* Some(step), or None where calculate_walk_volume panics
clamp_step_to_walk_volume(request, max_step_size, max_step_size_backwards, translation_exponent, rotation_exponent, max_turn_left, max_turn_right) ==
    LET clamped_turn == clamp(request.turn, max_turn_left, max_turn_right)
        clamped == Step(request.forward, request.left, clamped_turn)
        volume ==
            calculate_walk_volume(clamped, max_step_size, max_step_size_backwards,
                                  translation_exponent, rotation_exponent,
                                  max_turn_left, max_turn_right)
    IN  IF is_none(volume) THEN None
        ELSE IF unwrap(volume) <= Unit THEN Some(clamped)
        ELSE LET scaled ==
                    calculate_max_step_size_in_walk_volume(
                        clamped, max_step_size, max_step_size_backwards,
                        translation_exponent, rotation_exponent,
                        max_turn_left, max_turn_right)
             IN  Some(Step(scaled[1], scaled[2], clamped.turn))

(***************************************************************************)
(* step_planner.rs: the node.  A Result is Ok(value) or Err.               *)
(***************************************************************************)
Ok(value) == [name |-> "Ok", value |-> value]
Err == [name |-> "Err"]

\* filtering::hysteresis: above the range true, below it false, inside it the
\* last evaluation
greater_than_with_absolute_hysteresis(last_evaluation, value, low, high) ==
    IF value > high THEN TRUE
    ELSE IF value < low THEN FALSE
    ELSE last_evaluation

\* max_by(f32::total_cmp) of a non-empty sequence
MaxOf(values) ==
    CHOOSE v \in {values[i] : i \in DOMAIN values} :
        \A i \in DOMAIN values : values[i] <= v

\* mutant: a hot leg does not slow a fast walk down
calculate_max_step_size_ignoring_heat(self, ctx, speed, initial_side_bonus) ==
    LET highest_temperature ==
            MaxOf(ctx.sensor_data.temperature_sensors.left_leg
                    \o ctx.sensor_data.temperature_sensors.right_leg)
        leg_joints_hot ==
            greater_than_with_absolute_hysteresis(
                self.leg_joints_hot, highest_temperature, 70, 75)
        ret ==
            IF speed = "Slow" THEN StepAdd(ctx.max_step_size, ctx.step_size_delta_slow)
            ELSE IF speed = "Normal" THEN StepAdd(ctx.max_step_size, initial_side_bonus)
            ELSE StepAdd(StepAdd(ctx.max_step_size, ctx.step_size_delta_fast),
                         initial_side_bonus)
    IN  [ret |-> ret, self |-> [self EXCEPT !.leg_joints_hot = leg_joints_hot]]

\* StepPlanner::calculate_max_step_size
calculate_max_step_size(self, ctx, speed, initial_side_bonus) ==
    LET highest_temperature ==
            MaxOf(ctx.sensor_data.temperature_sensors.left_leg
                    \o ctx.sensor_data.temperature_sensors.right_leg)
        leg_joints_hot ==
            greater_than_with_absolute_hysteresis(
                self.leg_joints_hot, highest_temperature, 70, 75)
        effective_speed ==
            IF speed = "Fast" /\ leg_joints_hot THEN "Normal" ELSE speed
        ret ==
            IF effective_speed = "Slow"
            THEN StepAdd(ctx.max_step_size, ctx.step_size_delta_slow)
            ELSE IF effective_speed = "Normal"
            THEN StepAdd(ctx.max_step_size, initial_side_bonus)
            ELSE StepAdd(StepAdd(ctx.max_step_size, ctx.step_size_delta_fast),
                         initial_side_bonus)
    IN  [ret |-> ret, self |-> [self EXCEPT !.leg_joints_hot = leg_joints_hot]]

\* PathSegment::LineSegment and its length, for segments along an axis
LineSegment(start, end) == [name |-> "LineSegment", start |-> start, end |-> end]
segment_length(segment) ==
    Abs(segment.end[1] - segment.start[1]) + Abs(segment.end[2] - segment.start[2])

\* PathSegment::Arc: an arc of a circle from the orientation start to the
\* orientation end, both unit vectors along an axis, in the given direction
Circle(center, radius) == [center |-> center, radius |-> radius]
Arc(circle, start, end, direction) ==
    [name |-> "Arc", circle |-> circle, start |-> start, end |-> end,
     direction |-> direction]

\* Rotate90Degrees::rotate_90_degrees of a direction, as often as `turns` says
RECURSIVE rotate_quarters(_, _, _)
rotate_quarters(vector, direction, turns) ==
    IF turns = 0 THEN vector
    ELSE LET rotated ==
                IF direction = "Clockwise" THEN <<vector[2], -vector[1]>>
                ELSE <<-vector[2], vector[1]>>
         IN  rotate_quarters(rotated, direction, turns - 1)

\* AngleTo::angle_to between two orientations along the axes
angle_to(start, end, direction) ==
    LET quarters == CHOOSE k \in 0..3 : rotate_quarters(start, direction, k) = end
    IN  quarters * (Pi \div 2)

\* Arc::start_point and the point the arc ends at
start_point(arc) ==
    <<arc.circle.center[1] + arc.circle.radius * arc.start[1],
      arc.circle.center[2] + arc.circle.radius * arc.start[2]>>
end_point(arc) ==
    <<arc.circle.center[1] + arc.circle.radius * arc.end[1],
      arc.circle.center[2] + arc.circle.radius * arc.end[2]>>

\* PathSegment::length
path_segment_length(segment) ==
    IF segment.name = "Arc"
    THEN FMul(segment.circle.radius, angle_to(segment.start, segment.end, segment.direction))
    ELSE segment_length(segment)

\* the target pose of cycle, lines 137-159: position and angle
target_pose(segment) ==
    IF segment.name = "Arc"
    THEN LET from_center ==
                <<start_point(segment)[1] - segment.circle.center[1],
                  start_point(segment)[2] - segment.circle.center[2]>>
             direction == rotate_quarters(from_center, segment.direction, 1)
         IN  [position |-> <<start_point(segment)[1] + direction[1],
                             start_point(segment)[2] + direction[2]>>,
              direction |-> direction]
    ELSE [position |-> segment.end, direction |-> segment.end]

\* mutant: a path without segments yields a segment that stays at the origin
scan_last_or_origin(segments, index, distance, max_forward, last) ==
    IF Len(segments) = 0 THEN Some(LineSegment(<<0, 0>>, <<0, 0>>))
    ELSE Some(segments[1])

\* the scan over path.segments: the last segment that starts before
\* max_forward of arclength, None for none
RECURSIVE scan_last(_, _, _, _, _)
scan_last(segments, index, distance, max_forward, last) ==
    IF index > Len(segments) \/ ~(distance < max_forward) THEN last
    ELSE scan_last(segments, index + 1,
                   distance + path_segment_length(segments[index]),
                   max_forward, Some(segments[index]))

\* an angle brought back into (-Pi, Pi]
NormalizeAngle(angle) ==
    IF angle > Pi THEN angle - 2 * Pi
    ELSE IF angle <= -Pi THEN angle + 2 * Pi
    ELSE angle

\* the angle of a direction that lies along an axis; identity for none
direction_angle(direction) ==
    IF direction[1] = 0 /\ direction[2] = 0 THEN 0
    ELSE IF direction[2] = 0 THEN (IF direction[1] > 0 THEN 0 ELSE Pi)
    ELSE IF direction[2] > 0 THEN Pi \div 2 ELSE -(Pi \div 2)

\* the rotation of an Isometry2 that is a half turn or none
isometry_angle(isometry) == IF isometry.half_turn THEN Pi ELSE 0

\* mutant: the bounds of the turn do not depend on the support foot
max_turns_symmetric(ctx) == <<-ctx.max_step_size.turn, ctx.max_step_size.turn>>

\* the bounds of the turn: tighter towards the inside of the support foot
max_turns(ctx) ==
    LET mode == ctx.walking_engine_mode
        support_side == IF mode.name = "Walking" THEN Some(mode.support_side) ELSE None
    IN  IF is_some(support_side)
        THEN IF unwrap(support_side) = "Left"
             THEN <<-ctx.max_inside_turn, ctx.max_step_size.turn>>
             ELSE <<-ctx.max_step_size.turn, ctx.max_inside_turn>>
        ELSE <<-ctx.max_step_size.turn, ctx.max_step_size.turn>>

\* mutant: the side bonus is given on every step
side_bonus_always(last_planned_step, bonus) == Step(0, bonus, 0)

\* the local initial_side_bonus of cycle
side_bonus(last_planned_step, bonus) ==
    IF Abs(last_planned_step.forward) + Abs(last_planned_step.left)
            + Abs(last_planned_step.turn) <= 0
    THEN Step(0, bonus, 0) ELSE StepDefault

\* mutant: a cycle without a Walk command forgets the last planned step
planner_cycle_forgetting(self, ctx) ==
    LET turns == max_turns(ctx)
        command == ctx.motion_command
    IN  IF command.name # "Walk"
        THEN [ret |-> Some(Ok(StepDefault)), max_step_size |-> None,
              target_pose |-> None,
              self |-> [self EXCEPT !.last_planned_step = StepDefault]]
        ELSE
        LET initial_side_bonus == side_bonus(self.last_planned_step, ctx.initial_side_bonus)
            sized == calculate_max_step_size(self, ctx, command.speed, initial_side_bonus)
            max_step_size == sized.ret
            segment == scan_last(command.path.segments, 1, 0, max_step_size.forward, None)
        IN  IF is_none(segment)
            THEN [ret |-> Some(Err), max_step_size |-> Some(max_step_size),
                  target_pose |-> None, self |-> sized.self]
            ELSE
            LET target_position == target_pose(unwrap(segment)).position
                target_angle == direction_angle(target_pose(unwrap(segment)).direction)
                step_position == Transform(ctx.ground_to_upcoming_support, target_position)
                turn ==
                    IF command.orientation_mode.name = "AlignWithPath"
                    THEN NormalizeAngle(isometry_angle(ctx.ground_to_upcoming_support)
                                            + target_angle)
                    ELSE NormalizeAngle(isometry_angle(ctx.ground_to_upcoming_support)
                                            + command.orientation_mode.orientation)
                scaled ==
                    Step(FMul(step_position[1], ctx.request_scale.forward),
                         FMul(step_position[2], ctx.request_scale.left),
                         FMul(turn, ctx.request_scale.turn))
                request ==
                    IF is_some(ctx.injected_step) THEN unwrap(ctx.injected_step) ELSE scaled
                step ==
                    clamp_step_to_walk_volume(
                        request, max_step_size, ctx.max_step_size_backwards,
                        ctx.translation_exponent, ctx.rotation_exponent,
                        turns[1], turns[2])
            IN  IF is_none(step)
                THEN [ret |-> None, max_step_size |-> Some(max_step_size),
                      target_pose |-> Some(target_position), self |-> sized.self]
                ELSE [ret |-> Some(Ok(unwrap(step))),
                      max_step_size |-> Some(max_step_size),
                      target_pose |-> Some(target_position),
                      self |-> [sized.self EXCEPT !.last_planned_step = unwrap(step)]]

\* StepPlanner::cycle; ret is None where the cycle panics
planner_cycle(self, ctx) ==
    LET turns == max_turns(ctx)
        command == ctx.motion_command
    IN  IF command.name # "Walk"
        THEN [ret |-> Some(Ok(StepDefault)), max_step_size |-> None,
              target_pose |-> None, self |-> self]
        ELSE
        LET initial_side_bonus == side_bonus(self.last_planned_step, ctx.initial_side_bonus)
            sized == calculate_max_step_size(self, ctx, command.speed, initial_side_bonus)
            max_step_size == sized.ret
            segment == scan_last(command.path.segments, 1, 0, max_step_size.forward, None)
        IN  IF is_none(segment)
            THEN [ret |-> Some(Err), max_step_size |-> Some(max_step_size),
                  target_pose |-> None, self |-> sized.self]
            ELSE
            LET target_position == target_pose(unwrap(segment)).position
                target_angle == direction_angle(target_pose(unwrap(segment)).direction)
                step_position == Transform(ctx.ground_to_upcoming_support, target_position)
                turn ==
                    IF command.orientation_mode.name = "AlignWithPath"
                    THEN NormalizeAngle(isometry_angle(ctx.ground_to_upcoming_support)
                                            + target_angle)
                    ELSE NormalizeAngle(isometry_angle(ctx.ground_to_upcoming_support)
                                            + command.orientation_mode.orientation)
                scaled ==
                    Step(FMul(step_position[1], ctx.request_scale.forward),
                         FMul(step_position[2], ctx.request_scale.left),
                         FMul(turn, ctx.request_scale.turn))
                request ==
                    IF is_some(ctx.injected_step) THEN unwrap(ctx.injected_step) ELSE scaled
                step ==
                    clamp_step_to_walk_volume(
                        request, max_step_size, ctx.max_step_size_backwards,
                        ctx.translation_exponent, ctx.rotation_exponent,
                        turns[1], turns[2])
            IN  IF is_none(step)
                THEN [ret |-> None, max_step_size |-> Some(max_step_size),
                      target_pose |-> Some(target_position), self |-> sized.self]
                ELSE [ret |-> Some(Ok(unwrap(step))),
                      max_step_size |-> Some(max_step_size),
                      target_pose |-> Some(target_position),
                      self |-> [sized.self EXCEPT !.last_planned_step = unwrap(step)]]

\* StepPlanner::new
planner_new == [last_planned_step |-> StepDefault, leg_joints_hot |-> FALSE]

(***************************************************************************)
(* The inputs of a filter cycle.                                           *)
(***************************************************************************)
OptionOf(S) == {None} \cup {Some(x) : x \in S}

\* Players<Option<Penalty>> with the listed players penalized
Penalized(penalty_of) ==
    [player \in PlayerNumbers |->
        IF player \in DOMAIN penalty_of THEN penalty_of[player] ELSE NoPenalty]

NobodyPenalized == Penalized(<<>>)

\* the penalties of both teams: none; an own or an opponent player penalized
\* for motion in set; another own player penalized by hand
PenaltyInputs ==
    { [penalties |-> NobodyPenalized, opponent_penalties |-> NobodyPenalized],
      [penalties |-> Penalized(<<"IllegalMotionInSet">>),
       opponent_penalties |-> NobodyPenalized],
      [penalties |-> Penalized(<<NoPenalty, "Manual">>),
       opponent_penalties |-> NobodyPenalized],
      [penalties |-> NobodyPenalized,
       opponent_penalties |-> Penalized(<<"IllegalMotionInSet">>)] }

GameControllerStatesWith(game_phases, sub_states, kicking_teams, penalties) ==
    { [ game_state |-> game_state,
        game_phase |-> game_phase,
        sub_state |-> sub_state,
        kicking_team |-> kicking_team,
        penalties |-> penalty.penalties,
        opponent_penalties |-> penalty.opponent_penalties ] :
        game_state \in GameStates, game_phase \in game_phases,
        sub_state \in sub_states, kicking_team \in kicking_teams,
        penalty \in penalties }

\* ground_to_field and ball_position: no pose and no ball; or a pose with the
\* ball in midfield at (3.8 m, 0), in front of the own goal at (-4.3 m, -0.1 m),
\* or beside the opponent goal at (4.3 m, 1.3 m)
NoObservation == [ground_to_field |-> None, ball_position |-> None]
BallInMidfield ==
    [ground_to_field |-> Some([half_turn |-> FALSE, translation |-> <<0, 0>>]),
     ball_position |-> Some([position |-> <<380, 0>>])]
BallInFrontOfGoal ==
    [ground_to_field |-> Some([half_turn |-> TRUE, translation |-> <<0, 0>>]),
     ball_position |-> Some([position |-> <<430, 10>>])]
BallBesideGoal ==
    [ground_to_field |-> Some([half_turn |-> FALSE, translation |-> <<100, 100>>]),
     ball_position |-> Some([position |-> <<330, 30>>])]
BallWithoutPose ==
    [ground_to_field |-> None, ball_position |-> Some([position |-> <<380, 0>>])]

\* the inputs of the cycles that exercise the whistle in Set
WhistleInputs ==
    [ game_controller_states |->
        GameControllerStatesWith({"Normal"}, {None}, {None}, PenaltyInputs),
      filtered_whistles |-> BOOLEAN,
      visual_referee_proceed_to_ready |-> {FALSE},
      observations |-> {NoObservation},
      last_ball_states |-> {None},
      detected_free_kick_kicking_teams |-> {None} ]

\* the inputs of the cycles that exercise the whistle in Playing
PlayingInputs ==
    [ game_controller_states |->
        GameControllerStatesWith({"Normal"}, {None}, {None},
            {[penalties |-> NobodyPenalized, opponent_penalties |-> NobodyPenalized]}),
      filtered_whistles |-> BOOLEAN,
      visual_referee_proceed_to_ready |-> {FALSE},
      observations |-> {NoObservation, BallInMidfield, BallInFrontOfGoal,
                        BallBesideGoal, BallWithoutPose},
      last_ball_states |-> {None},
      detected_free_kick_kicking_teams |-> {None} ]

\* the inputs of the cycles that exercise the end of a game
FinishInputs ==
    [ game_controller_states |->
        GameControllerStatesWith(GamePhases, {None}, {None},
            {[penalties |-> NobodyPenalized, opponent_penalties |-> NobodyPenalized]}),
      filtered_whistles |-> BOOLEAN,
      visual_referee_proceed_to_ready |-> {FALSE},
      observations |-> {NoObservation},
      last_ball_states |-> {None},
      detected_free_kick_kicking_teams |-> {None} ]

\* the inputs of the cycles that exercise Standby and the visual referee
StandbyInputs ==
    [ game_controller_states |->
        GameControllerStatesWith({"Normal"}, {None}, {None},
            {[penalties |-> NobodyPenalized, opponent_penalties |-> NobodyPenalized]}),
      filtered_whistles |-> BOOLEAN,
      visual_referee_proceed_to_ready |-> BOOLEAN,
      observations |-> {NoObservation},
      last_ball_states |-> {None},
      detected_free_kick_kicking_teams |-> {None} ]

\* the inputs of the cycles that exercise the own and the opponent view: every
\* game state, with and without a kicking team and a whistle
ViewInputs ==
    [ game_controller_states |->
        GameControllerStatesWith({"Normal"}, {None},
            {None, Some("Hulks"), Some("Opponent")},
            {[penalties |-> NobodyPenalized, opponent_penalties |-> NobodyPenalized]}),
      filtered_whistles |-> BOOLEAN,
      visual_referee_proceed_to_ready |-> BOOLEAN,
      observations |-> {NoObservation},
      last_ball_states |-> {None},
      detected_free_kick_kicking_teams |-> {None} ]

\* the ball as last seen by the ball filter: in the own half at (-1 m, 0), on
\* the centre line at (0, 0.5 m), in the opponent half at (1 m, 0), seen in
\* this cycle
BallsSeen ==
    { [age |-> 0, ball_in_field |-> <<-100, 0>>],
      [age |-> 0, ball_in_field |-> <<0, 50>>],
      [age |-> 0, ball_in_field |-> <<100, 0>>] }

\* the game-controller states of a running game
InPlay(game_controller_states) ==
    {state \in game_controller_states : state.game_state = "Playing"}

\* the inputs of the cycles that exercise the kicking team of a set play
SetPlayInputs ==
    [ game_controller_states |->
        InPlay(GameControllerStatesWith({"Normal"},
            {Some("CornerKick"), Some("GoalKick"), Some("PenaltyKick")},
            {None, Some("Opponent")},
            {[penalties |-> NobodyPenalized, opponent_penalties |-> NobodyPenalized]})),
      filtered_whistles |-> {FALSE},
      visual_referee_proceed_to_ready |-> {FALSE},
      observations |-> {NoObservation},
      last_ball_states |-> OptionOf(BallsSeen),
      detected_free_kick_kicking_teams |-> {None} ]

\* the penalties of both teams around a pushing free kick: none, an own
\* player, an opponent player, or a player of each team penalized by hand
PushingPenaltyInputs ==
    { [penalties |-> NobodyPenalized, opponent_penalties |-> NobodyPenalized],
      [penalties |-> Penalized(<<"Manual">>), opponent_penalties |-> NobodyPenalized],
      [penalties |-> NobodyPenalized, opponent_penalties |-> Penalized(<<"Manual">>)],
      [penalties |-> Penalized(<<"Manual">>),
       opponent_penalties |-> Penalized(<<"Manual">>)] }

\* the inputs of the cycles that exercise the pushing free kick
PushingInputs ==
    [ game_controller_states |->
        InPlay(GameControllerStatesWith({"Normal"},
            {None, Some("PushingFreeKick")}, {None, Some("Hulks")},
            PushingPenaltyInputs)),
      filtered_whistles |-> {FALSE},
      visual_referee_proceed_to_ready |-> {FALSE},
      observations |-> {NoObservation},
      last_ball_states |-> {None},
      detected_free_kick_kicking_teams |-> {None} ]

(***************************************************************************)
(* The state machine.                                                      *)
(***************************************************************************)
entry_states(self) ==
    [state |-> self.state, opponent_state |-> self.opponent_state,
     last_observed_ball |-> self.last_observed_ball,
     whistle_in_set_ball_position |-> self.whistle_in_set_ball_position]

\* Option<LastBallState> of a cycle: the ball as last seen `age` ticks before
\* the cycle starts
LastBallStateAt(ball_seen, start_time) ==
    IF is_some(ball_seen)
    THEN Some([time |-> start_time - unwrap(ball_seen).age,
               ball_in_field |-> unwrap(ball_seen).ball_in_field])
    ELSE None

\* before the first cycle: the node as constructed, and a context that no cycle
\* has filled yet, with the parameters of the run
FilterInit(configs) ==
    /\ filter = filter_new
    /\ filter_entry = entry_states(filter_new)
    /\ filter_locals = [did_receive_motion_in_set_penalty |-> FALSE]
    /\ \E config \in configs :
        context =
            [ ball_position |-> None,
              cycle_time |-> [start_time |-> 0],
              filtered_whistle |-> [is_detected |-> FALSE],
              visual_referee_proceed_to_ready |-> FALSE,
              detected_free_kick_kicking_team |-> None,
              game_controller_state |->
                [ game_state |-> "Initial", game_phase |-> "Normal",
                  sub_state |-> None, kicking_team |-> None,
                  penalties |-> NobodyPenalized,
                  opponent_penalties |-> NobodyPenalized ],
              config |-> config,
              field_dimensions |-> field_dimensions,
              player_number |-> player_number,
              ground_to_field |-> None,
              last_ball_state |-> None ]
    /\ main_outputs = None

MotionInit ==
    /\ selector = selector_new
    /\ selector_entry = selector_new
    /\ motion_context =
            [ motion_command |-> [name |-> "Unstiff"],
              has_ground_contact |-> FALSE,
              motion_safe_exits |-> default_safe_exits ]
    /\ motion_selection = None
    /\ held_command = None

(***************************************************************************)
(* The step planner: its parameters and the inputs of a cycle.             *)
(***************************************************************************)
\* step_planner.*: steps of 6 cm forward, 4 cm sideways, 0.5 rad of turn
StepPlannerParameters ==
    [ max_step_size |-> Step(60, 40, 500),
      step_size_delta_slow |-> Step(-20, -10, -100),
      step_size_delta_fast |-> Step(20, 10, 100),
      max_step_size_backwards |-> 40,
      max_inside_turn |-> 300,
      rotation_exponent |-> 2 * Unit,
      translation_exponent |-> 2 * Unit,
      initial_side_bonus |-> 5,
      request_scale |-> Step(Unit, Unit, Unit) ]

\* PlannedPath: no segment; one segment of 3 cm ahead; a segment of 10 cm
\* ahead and one to the left from its end
Paths ==
    { [segments |-> <<>>],
      [segments |-> <<LineSegment(<<0, 0>>, <<30, 0>>)>>],
      [segments |-> <<LineSegment(<<0, 0>>, <<100, 0>>),
                      LineSegment(<<100, 0>>, <<100, 50>>)>>] }

\* PlannedPath: segments of 3 cm ahead, to the left and ahead again; a quarter
\* circle of 3 cm radius from the origin to the left, then a segment ahead
TurningPaths ==
    { [segments |-> <<LineSegment(<<0, 0>>, <<30, 0>>),
                      LineSegment(<<30, 0>>, <<30, 30>>),
                      LineSegment(<<30, 30>>, <<90, 30>>)>>],
      [segments |-> <<Arc(Circle(<<0, 30>>, 30), <<0, -1>>, <<1, 0>>, "Counterclockwise"),
                      LineSegment(<<30, 30>>, <<30, 60>>)>>],
      [segments |-> <<LineSegment(<<0, 0>>, <<0, -20>>),
                      Arc(Circle(<<20, -20>>, 20), <<-1, 0>>, <<0, -1>>,
                          "Counterclockwise")>>] }

AlignWithPath == [name |-> "AlignWithPath"]
Override(orientation) == [name |-> "Override", orientation |-> orientation]

WalkSpeeds == {"Slow", "Normal", "Fast"}

Walk(path, orientation_mode, speed) ==
    [name |-> "Walk", path |-> path, orientation_mode |-> orientation_mode,
     speed |-> speed]

\* walking_engine::mode::Mode, by what the planner reads of it
Standing == [name |-> "Standing"]
Walking(support_side) == [name |-> "Walking", support_side |-> support_side]

\* SensorData: the temperatures of the leg joints, in degrees
LegTemperatures(left_leg, right_leg) ==
    [temperature_sensors |-> [left_leg |-> left_leg, right_leg |-> right_leg]]
Cool == LegTemperatures(<<40, 60>>, <<55, 45>>)
Warm == LegTemperatures(<<72, 40>>, <<60, 71>>)
Hot == LegTemperatures(<<50, 60>>, <<80, 65>>)

\* the inputs of the cycles that exercise the bounds of the turn
TurnInputs ==
    [ motion_commands |->
        {[name |-> "Stand"]}
            \cup {Walk(path, orientation_mode, "Normal") :
                    path \in Paths,
                    orientation_mode \in {AlignWithPath, Override(-2000), Override(400)}},
      injected_steps |-> {None, Some(Step(30, 0, 700)), Some(Step(0, 10, -400))},
      walking_engine_modes |-> {Standing, Walking("Left"), Walking("Right")},
      sensor_data |-> {Cool},
      ground_to_upcoming_support |->
        {[half_turn |-> FALSE, translation |-> <<0, 0>>],
         [half_turn |-> TRUE, translation |-> <<20, 0>>]} ]

\* the inputs of the cycles that exercise the maximum step size
SpeedInputs ==
    [ motion_commands |->
        {[name |-> "Stand"]}
            \cup {Walk(path, AlignWithPath, speed) : path \in Paths, speed \in WalkSpeeds},
      injected_steps |-> {None, Some(StepDefault)},
      walking_engine_modes |-> {Standing},
      sensor_data |-> {Cool, Warm, Hot},
      ground_to_upcoming_support |-> {[half_turn |-> FALSE, translation |-> <<0, 0>>]} ]

\* the inputs of the cycles that exercise the truncation of the path
PathInputs ==
    [ motion_commands |->
        {[name |-> "Stand"]}
            \cup {Walk(path, AlignWithPath, speed) :
                    path \in Paths \cup TurningPaths, speed \in WalkSpeeds},
      injected_steps |-> {None},
      walking_engine_modes |-> {Standing, Walking("Left")},
      sensor_data |-> {Cool},
      ground_to_upcoming_support |->
        {[half_turn |-> FALSE, translation |-> <<0, 0>>],
         [half_turn |-> TRUE, translation |-> <<20, 0>>]} ]

\* the inputs of the cycles that exercise the commands other than Walk, between
\* Walk cycles with cool and with hot legs
IdleInputs ==
    [ motion_commands |->
        {[name |-> name] : name \in {"Stand", "InWalkKick", "SitDown", "Unstiff"}}
            \cup {Walk(path, AlignWithPath, speed) :
                    path \in Paths, speed \in {"Normal", "Fast"}},
      injected_steps |-> {None, Some(StepDefault)},
      walking_engine_modes |-> {Standing, Walking("Right")},
      sensor_data |-> {Cool, Hot},
      ground_to_upcoming_support |-> {[half_turn |-> FALSE, translation |-> <<0, 0>>]} ]

\* the walk volumes clamp_step_to_walk_volume is called with: the maxima are
\* large against the resolution of the arithmetic, as they are for f32
WalkVolumes ==
    { [ max_step_size |-> Step(800, 400, 500),
        max_step_size_backwards |-> 500,
        translation_exponent |-> translation_exponent,
        rotation_exponent |-> rotation_exponent,
        max_turn_left |-> turns[1],
        max_turn_right |-> turns[2] ] :
        translation_exponent \in {Unit, 2 * Unit},
        rotation_exponent \in {Unit, 2 * Unit},
        turns \in {<<-500, 500>>, <<-300, 500>>, <<-500, 300>>} }

\* the requests it is called with: inside the walk volume and up to a few
\* times outside it
Requests ==
    {Step(forward, left, turn) :
        forward \in {-1200, -400, 0, 600, 1000},
        left \in {-500, 0, 300, 600},
        turn \in {-700, -300, 0, 400, 600}}

\* request (1.0, 0.0, 0.4) with max = (0.08, 0.04, 0.5) and exponents 2
ScenarioCall ==
    [ request |-> Step(Unit, 0, 400),
      walk_volume |->
        [ max_step_size |-> Step(80, 40, 500),
          max_step_size_backwards |-> 80,
          translation_exponent |-> 2 * Unit,
          rotation_exponent |-> 2 * Unit,
          max_turn_left |-> -500,
          max_turn_right |-> 500 ] ]

ClampCalls ==
    {[request |-> request, walk_volume |-> walk_volume] :
        request \in Requests, walk_volume \in WalkVolumes} \cup {ScenarioCall}

\* before the first cycle of the planner; no call of the clamp on its own
PlannerNodeInit ==
    /\ planner = planner_new
    /\ planner_entry = planner_new
    /\ planner_context =
            [ motion_command |-> [name |-> "Stand"],
              injected_step |-> None,
              walking_engine_mode |-> Standing,
              sensor_data |-> Cool,
              ground_to_upcoming_support |->
                [half_turn |-> FALSE, translation |-> <<0, 0>>] ]
                @@ StepPlannerParameters
    /\ planner_outputs = None

NoCall == [request |-> StepDefault, walk_volume |-> None, result |-> None]

PlannerInit == PlannerNodeInit /\ clamp_call = NoCall

\* one StepPlanner::cycle, its inputs drawn from `inputs`; a cycle that
\* panics ends the run
PlannerCycle(inputs) ==
    \E motion_command \in inputs.motion_commands,
       injected_step \in inputs.injected_steps,
       walking_engine_mode \in inputs.walking_engine_modes,
       sensor_data \in inputs.sensor_data,
       ground_to_upcoming_support \in inputs.ground_to_upcoming_support :
        LET ctx == [planner_context EXCEPT
                !.motion_command = motion_command,
                !.injected_step = injected_step,
                !.walking_engine_mode = walking_engine_mode,
                !.sensor_data = sensor_data,
                !.ground_to_upcoming_support = ground_to_upcoming_support]
            result == planner_cycle(planner, ctx)
        IN  /\ (IF is_none(planner_outputs)
                THEN TRUE ELSE is_some(unwrap(planner_outputs).ret))
            /\ planner' = result.self
            /\ planner_entry' = planner
            /\ planner_context' = ctx
            /\ planner_outputs' =
                    Some([ret |-> result.ret, max_step_size |-> result.max_step_size,
                          target_pose |-> result.target_pose])
            /\ UNCHANGED <<filterVars, motionVars, clamp_call, restVars>>

\* one call of clamp_step_to_walk_volume with the arguments drawn at the start
ClampStep ==
    /\ is_some(clamp_call.walk_volume)
    /\ is_none(clamp_call.result)
    /\ LET volume == unwrap(clamp_call.walk_volume)
       IN  clamp_call' = [clamp_call EXCEPT !.result =
                Some(clamp_step_to_walk_volume(
                        clamp_call.request, volume.max_step_size,
                        volume.max_step_size_backwards, volume.translation_exponent,
                        volume.rotation_exponent, volume.max_turn_left,
                        volume.max_turn_right))]
    /\ UNCHANGED <<filterVars, motionVars, planner, planner_entry, planner_context,
                   planner_outputs, restVars>>

\* the three nodes above as constructed
ControlInit == FilterInit({Config(1, 2, 1, 2)}) /\ MotionInit /\ PlannerInit

(***************************************************************************)
(* sensor_data_receiver.rs: the sensor intake.                             *)
(***************************************************************************)
\* std::time::UNIX_EPOCH, SystemTime being counted in ticks from it
UNIX_EPOCH == 0

\* SensorDataReceiver::new
receiver_new ==
    [last_cycle_start |-> UNIX_EPOCH, calibration_state |-> "WaitingForSteady"]

\* SystemTime::duration_since: an error where `earlier` is later than self
duration_since(self, earlier) == IF self >= earlier THEN Ok(self - earlier) ELSE Err

\* SensorDataReceiver::cycle, given what read_low_state and get_now return;
\* ret is None where the cycle panics
receiver_cycle(self, low_state, now) ==
    IF low_state.name = "Err" THEN [ret |-> Some(Err), self |-> self]
    ELSE LET last_cycle_duration == duration_since(now, self.last_cycle_start)
         IN  IF last_cycle_duration.name = "Err" THEN [ret |-> None, self |-> self]
             ELSE [ret |-> Some(Ok(
                        [low_state |-> low_state.value,
                         cycle_time |->
                            [start_time |-> now,
                             last_cycle_duration |-> last_cycle_duration.value]])),
                   self |-> self]

\* the clock is not advanced beyond MaxClock
MaxClock == 8

\* what read_low_state returns: a failure, or one of two readings
LowStates == {Err, Ok("low_state_a"), Ok("low_state_b")}

\* a clock that was set to a time before the epoch
BeforeEpoch == UNIX_EPOCH - 1

ReceiverInit ==
    /\ receiver = receiver_new
    /\ receiver_previous = None
    /\ receiver_outputs = None
    /\ hardware_clock = UNIX_EPOCH

\* one SensorDataReceiver::cycle: the clock has advanced since the cycle
\* before, or was set back; a cycle that panics ends the run
ReceiverCycle ==
    \E low_state \in LowStates,
       now \in {hardware_clock + duration : duration \in 1..MaxCycleDuration}
                \cup {BeforeEpoch} :
        LET result == receiver_cycle(receiver, low_state, now)
        IN  /\ hardware_clock < MaxClock
            /\ (IF is_none(receiver_outputs) THEN TRUE ELSE is_some(receiver_outputs[1]))
            /\ hardware_clock' = now
            /\ receiver' = result.self
            /\ receiver_previous' = receiver_outputs
            /\ receiver_outputs' = Some(result.ret)
            /\ UNCHANGED <<filterVars, motionVars, plannerVars, runtimeVars,
                   hypothesisVars, kickVars,
                           engineVars, behaviorVars, geometryVars>>

(***************************************************************************)
(* ball_filter/hypothesis.rs: a hypothesis of the ball.  The distribution  *)
(* of BallMode::Moving is kept as the operations that formed it.           *)
(***************************************************************************)
Moving(distribution) == [name |-> "Moving", distribution |-> distribution]

\* BallHypothesis::new
hypothesis_new(distribution, last_seen) ==
    [mode |-> Moving(<<distribution>>), last_seen |-> last_seen, validity |-> Unit]

\* BallHypothesis::predict
hypothesis_predict(self, delta_time) ==
    [self EXCEPT !.mode = Moving(Append(self.mode.distribution, "predict"))]

\* mutant: an update sets the validity to the bonus
hypothesis_update_resetting(self, detection_time, measurement, validity_bonus) ==
    [ mode |-> Moving(Append(self.mode.distribution, "update")),
      last_seen |-> detection_time,
      validity |-> validity_bonus ]

\* BallHypothesis::update
hypothesis_update(self, detection_time, measurement, validity_bonus) ==
    [ mode |-> Moving(Append(self.mode.distribution, "update")),
      last_seen |-> detection_time,
      validity |-> self.validity + validity_bonus ]

\* BallHypothesis::merge
hypothesis_merge(self, other) ==
    [self EXCEPT
        !.mode = Moving(Append(self.mode.distribution, "merge")),
        !.validity = IF other.validity > self.validity
                     THEN other.validity ELSE self.validity]

\* a hypothesis is formed by at most MaxOperations operations after new
MaxOperations == 4

\* the validity_bonus of an update: none, a quarter, one
ValidityBonuses == {0, Unit \div 4, Unit}

\* the hypotheses a hypothesis is merged with: new ones and updated ones
OtherHypotheses ==
    {hypothesis_new("other", 0)}
        \cup {hypothesis_update(hypothesis_new("other", 0), 1, "measurement", bonus) :
                bonus \in ValidityBonuses}

HypothesisInit ==
    /\ hypothesis = None
    /\ hypothesis_entry = None
    /\ hypothesis_call = None

\* the operation `call` has led from the hypothesis to `result`
HypothesisStep(call, result) ==
    /\ hypothesis' = Some(result)
    /\ hypothesis_entry' = hypothesis
    /\ hypothesis_call' = Some(call)
    /\ UNCHANGED <<filterVars, motionVars, plannerVars, runtimeVars,
                   receiverVars, kickVars,
                   engineVars, behaviorVars, geometryVars>>

HypothesisNew ==
    /\ is_none(hypothesis)
    /\ \E last_seen \in 0..1 :
            HypothesisStep([name |-> "new"], hypothesis_new("measurement", last_seen))

HypothesisPredict ==
    /\ is_some(hypothesis)
    /\ Len(unwrap(hypothesis).mode.distribution) <= MaxOperations
    /\ HypothesisStep([name |-> "predict"], hypothesis_predict(unwrap(hypothesis), 1))

HypothesisUpdate ==
    /\ is_some(hypothesis)
    /\ Len(unwrap(hypothesis).mode.distribution) <= MaxOperations
    /\ \E detection_time \in 1..2, validity_bonus \in ValidityBonuses :
            HypothesisStep(
                [name |-> "update", detection_time |-> detection_time,
                 validity_bonus |-> validity_bonus],
                hypothesis_update(unwrap(hypothesis), detection_time, "measurement",
                                  validity_bonus))

HypothesisMerge ==
    /\ is_some(hypothesis)
    /\ Len(unwrap(hypothesis).mode.distribution) <= MaxOperations
    /\ \E other \in OtherHypotheses :
            HypothesisStep([name |-> "merge", other |-> other],
                           hypothesis_merge(unwrap(hypothesis), other))


(***************************************************************************)
(* walking_engine/kick_state.rs: the progress of a kick.                   *)
(***************************************************************************)
\* an Isometry3 that is a translation, applied to a point
Translate(isometry, point) ==
    <<isometry[1] + point[1], isometry[2] + point[2], isometry[3] + point[3]>>

\* KickState::new; None where it panics
kick_new(variant, side, strength, ctx) ==
    IF is_none(ctx.ground_to_robot) THEN None
    ELSE LET ball_position == ctx.ball_state.ball_in_ground
             ball_in_ground ==
                <<ball_position[1], ball_position[2], ctx.field_dimensions.ball_radius>>
             ball_in_robot == Translate(unwrap(ctx.ground_to_robot), ball_in_ground)
         IN  Some([ variant |-> variant,
                    side |-> side,
                    index |-> 0,
                    strength |-> strength,
                    ball_position |-> ball_in_robot ])

\* KickState::advance_to_next_step
advance_to_next_step(self) == [self EXCEPT !.index = self.index + 1]

\* KickSteps::num_steps: the number of sub-steps of a variant
num_steps(kick_steps, variant) == Len(kick_steps[variant])

\* mutant: a kick is finished once its index is past the number of sub-steps
is_finished_past_the_end(self, kick_steps) ==
    self.index > num_steps(kick_steps, self.variant)

\* KickState::is_finished
is_finished(self, kick_steps) == self.index >= num_steps(kick_steps, self.variant)

KickVariants == {"Forward", "Turn", "Side", "InstantForward"}

\* KickSteps: the sub-steps of every variant
KickSteps ==
    [ Forward |-> <<"forward_1", "forward_2">>,
      Turn |-> <<"turn_1">>,
      Side |-> <<"side_1", "side_2">>,
      InstantForward |-> <<"instant_1">> ]

\* the walking_engine::Context, by what KickState::new reads of it
KickContexts ==
    [ ball_state : {[ball_in_ground |-> <<20, 5>>], [ball_in_ground |-> <<15, -5>>]},
      field_dimensions : {[ball_radius |-> 5]},
      ground_to_robot : {None, Some(<<0, 0, -40>>)} ]

\* a kick is not advanced beyond MaxKickIndex
MaxKickIndex == 4

KickInit ==
    /\ kick = None
    /\ kick_entry = None
    /\ kick_call = None

\* the operation `call` has led from the kick to `result`
KickStep(call, result) ==
    /\ kick' = result
    /\ kick_entry' = kick
    /\ kick_call' = Some(call)
    /\ UNCHANGED <<filterVars, motionVars, plannerVars, runtimeVars,
                   receiverVars, hypothesisVars,
                   engineVars, behaviorVars, geometryVars>>

\* KickState::new; a call that panics ends the run
KickNew ==
    /\ is_none(kick_call)
    /\ \E variant \in KickVariants, side \in {"Left", "Right"},
          strength \in {Unit \div 2, Unit}, ctx \in KickContexts :
            LET created == kick_new(variant, side, strength, ctx)
            IN  KickStep([name |-> "new", panicked |-> is_none(created)], created)

KickAdvance ==
    /\ is_some(kick)
    /\ unwrap(kick).index < MaxKickIndex
    /\ KickStep([name |-> "advance_to_next_step"],
                Some(advance_to_next_step(unwrap(kick))))

KickIsFinished ==
    /\ is_some(kick)
    /\ KickStep([name |-> "is_finished", ret |-> is_finished(unwrap(kick), KickSteps)],
                kick)

\* LegJoints and BodyJoints, angles in thousandths of a radian
LegJoints(hip_yaw_pitch, hip_pitch, hip_roll, knee_pitch, ankle_pitch, ankle_roll) ==
    [hip_yaw_pitch |-> hip_yaw_pitch, hip_pitch |-> hip_pitch, hip_roll |-> hip_roll,
     knee_pitch |-> knee_pitch, ankle_pitch |-> ankle_pitch, ankle_roll |-> ankle_roll]

\* LegJoints + LegJoints
LegJointsAdd(a, b) ==
    LegJoints(a.hip_yaw_pitch + b.hip_yaw_pitch, a.hip_pitch + b.hip_pitch,
              a.hip_roll + b.hip_roll, a.knee_pitch + b.knee_pitch,
              a.ankle_pitch + b.ankle_pitch, a.ankle_roll + b.ankle_roll)

\* JointOverride: a keyframe of an override
JointOverride(timepoint, value) == [timepoint |-> timepoint, value |-> value]

\* KickStep, by its overrides: the sub-steps named in KickSteps
KickStepOf ==
    [ forward_1 |-> [hip_pitch_overrides |->
                        Some(<<JointOverride(0, 0), JointOverride(2, -400),
                               JointOverride(4, 0)>>),
                     ankle_pitch_overrides |-> None],
      forward_2 |-> [hip_pitch_overrides |-> None, ankle_pitch_overrides |-> None],
      turn_1 |-> [hip_pitch_overrides |->
                        Some(<<JointOverride(1, 0), JointOverride(3, -200)>>),
                  ankle_pitch_overrides |->
                        Some(<<JointOverride(1, 0), JointOverride(3, 100)>>)],
      side_1 |-> [hip_pitch_overrides |-> None, ankle_pitch_overrides |-> None],
      side_2 |-> [hip_pitch_overrides |-> None,
                  ankle_pitch_overrides |->
                        Some(<<JointOverride(0, 0), JointOverride(2, 200)>>)],
      instant_1 |-> [hip_pitch_overrides |->
                        Some(<<JointOverride(0, -100), JointOverride(2, -500)>>),
                     ankle_pitch_overrides |-> None] ]

\* KickState::get_step
get_step(self, kick_steps) == KickStepOf[kick_steps[self.variant][self.index + 1]]

\* the first window of two keyframes that holds t, starting at `index`
RECURSIVE find_window(_, _, _)
find_window(overrides, index, t) ==
    IF index + 1 > Len(overrides) THEN None
    ELSE IF overrides[index].timepoint <= t /\ t < overrides[index + 1].timepoint
         THEN Some(<<overrides[index], overrides[index + 1]>>)
         ELSE find_window(overrides, index + 1, t)

\* compute_override
compute_override(overrides, t) ==
    LET window == find_window(overrides, 1, t)
    IN  IF is_none(window) THEN 0
        ELSE LET start == unwrap(window)[1]
                 end == unwrap(window)[2]
                 phase_duration == end.timepoint - start.timepoint
                 t_in_phase == t - start.timepoint
                 linear_time == clamp(FDiv(t_in_phase * Unit, phase_duration * Unit),
                                      0, Unit)
             IN  FMul(start.value, Unit - linear_time) + FMul(end.value, linear_time)

\* compute_kick_overrides
compute_kick_overrides(kick_step, t, strength) ==
    LET hip_pitch ==
            IF is_some(kick_step.hip_pitch_overrides)
            THEN FMul(strength, compute_override(unwrap(kick_step.hip_pitch_overrides), t))
            ELSE 0
        ankle_pitch ==
            IF is_some(kick_step.ankle_pitch_overrides)
            THEN FMul(strength, compute_override(unwrap(kick_step.ankle_pitch_overrides), t))
            ELSE 0
    IN  LegJoints(0, hip_pitch, 0, 0, ankle_pitch, 0)

\* kinematics::forward::left_sole_to_robot and right_sole_to_robot: the pose
\* of a sole, kept by the joints of the leg that hold it there
sole_to_robot(leg) == [name |-> "sole", leg |-> leg]

\* kinematics::inverse::leg_angles for one foot: the joints forward
\* kinematics started from for the pose of a sole, and for any other pose
\* the solution `reaching` of the inverse kinematics
leg_angles(foot, reaching) == IF foot.name = "sole" THEN foot.leg ELSE reaching

\* KickOverride for BodyJoints::override_with_kick, `reaching` being the joints
\* that bring a foot to the side of the ball
override_with_kick(self, ctx, kick_state, step, reaching) ==
    LET ball_side ==
            [name |-> "ball_side",
             position |-> <<kick_state.ball_position[1] - ctx.field_dimensions.ball_radius,
                            kick_state.ball_position[2], kick_state.ball_position[3]>>]
        leg_joints ==
            IF step.plan.support_side = "Left"
            THEN [left_leg |-> leg_angles(sole_to_robot(self.left_leg), reaching),
                  right_leg |-> leg_angles(ball_side, reaching)]
            ELSE [left_leg |-> leg_angles(ball_side, reaching),
                  right_leg |-> leg_angles(sole_to_robot(self.right_leg), reaching)]
    IN  [self EXCEPT !.left_leg = leg_joints.left_leg,
                     !.right_leg = leg_joints.right_leg]

\* BodyJoints of a walking robot: the arms, and legs bent for a step
WalkingJoints ==
    { [left_arm |-> "arm_back", right_arm |-> "arm_ahead",
       left_leg |-> LegJoints(0, -300, 0, 600, -300, 0),
       right_leg |-> LegJoints(0, -400, 50, 700, -300, -50)] }

\* the joints the inverse kinematics yields for a foot at the side of the
\* ball: a leg stretched towards it, or the leg as the step has it
ReachingJoints(self, support_side) ==
    { LegJoints(0, -700, 100, 400, 300, -100),
      IF support_side = "Left" THEN self.right_leg ELSE self.left_leg }

\* StepState, by what the overlay reads: the support side and the time since
\* the start of the step
StepStates ==
    { [plan |-> [support_side |-> side], time_since_start |-> t] :
        side \in {"Left", "Right"}, t \in 0..4 }

\* the overlay of a kick in progress onto the joints of a step
OverrideWithKick ==
    /\ is_some(kick)
    /\ ~is_finished(unwrap(kick), KickSteps)
    /\ \E self \in WalkingJoints, step \in StepStates :
        \E reaching \in ReachingJoints(self, step.plan.support_side) :
            KickStep([name |-> "override_with_kick", self |-> self, step |-> step,
                      ret |-> override_with_kick(
                                self, [field_dimensions |-> [ball_radius |-> 5]],
                                unwrap(kick), step, reaching)],
                     kick)

(***************************************************************************)
(* walking_engine/mode/catching.rs: the catching steps.  Lengths are in    *)
(* thousandths of a metre; poses are kept by their position, isometries by *)
(* their translation.                                                      *)
(***************************************************************************)
Feet(support_sole, swing_sole) == [support_sole |-> support_sole, swing_sole |-> swing_sole]

opposite(side) == IF side = "Left" THEN "Right" ELSE "Left"

\* robot_to_walk * ground_to_robot * point.extend(0.0), its xy
ground_to_walk(ctx, robot_to_ground, point) ==
    << ctx.robot_to_walk[1] + (point[1] - robot_to_ground[1]),
       ctx.robot_to_walk[2] + (point[2] - robot_to_ground[2]) >>

\* transform_left_sole_outline and transform_right_sole_outline: the
\* corners of a sole that stands at `sole`
sole_outline(sole) ==
    { <<sole[1] + forward, sole[2] + left>> : forward \in {-50, 100}, left \in {-40, 40} }

\* Rectangle::project_point_into_rect
project_point_into_rect(rect, point) ==
    << clamp(point[1], rect.min[1], rect.max[1]),
       clamp(point[2], rect.min[2], rect.max[2]) >>

\* clamp_feet_to_anatomic_constraints: the swing sole is held within the
\* anatomic range around the support sole
clamp_feet_to_anatomic_constraints(feet, support_side, parameters) ==
    Feet(feet.support_sole,
         << clamp(feet.swing_sole[1],
                  feet.support_sole[1] - parameters.anatomic_range[1],
                  feet.support_sole[1] + parameters.anatomic_range[1]),
            clamp(feet.swing_sole[2],
                  feet.support_sole[2] - parameters.anatomic_range[2],
                  feet.support_sole[2] + parameters.anatomic_range[2]) >>)

\* StepPlan::new_with_start_and_end_feet
new_with_start_and_end_feet(ctx, support_side, start_feet, end_feet) ==
    [support_side |-> support_side, start_feet |-> start_feet, end_feet |-> end_feet]

\* Catching::new
catching_new(ctx, last_step_state, support_side) ==
    IF is_none(ctx.robot_to_ground) THEN [step |-> last_step_state]
    ELSE
    LET parameters == ctx.parameters
        catching_steps == parameters.catching_steps
        zmp == ground_to_walk(ctx, unwrap(ctx.robot_to_ground), ctx.zero_moment_point)
        support_outline == sole_outline(ctx.current_feet[support_side].support_sole)
        target ==
            IF /\ Abs(zmp[1]) < catching_steps.balance_region_x
               /\ \/ (support_side = "Left"
                        /\ \A point \in support_outline : point[2] < zmp[2])
                  \/ (support_side = "Right"
                        /\ \A point \in support_outline : point[2] > zmp[2])
            THEN <<zmp[1], -zmp[2]>> ELSE zmp
        clamped_target ==
            << clamp(target[1], -catching_steps.max_target_distance[1],
                     catching_steps.max_target_distance[1]),
               clamp(target[2], -catching_steps.max_target_distance[2],
                     catching_steps.max_target_distance[2]) >>
        target_projection_into_foot_support ==
            project_point_into_rect(parameters.foot_support, clamped_target)
        displacement ==
            << clamped_target[1] - target_projection_into_foot_support[1],
               clamped_target[2] - target_projection_into_foot_support[2] >>
        over_estimated ==
            << FMul(displacement[1], catching_steps.over_estimation_factor[1]),
               FMul(displacement[2], catching_steps.over_estimation_factor[2]) >>
        support_base_offset ==
            IF support_side = "Left"
            THEN parameters.base.foot_offset_left ELSE parameters.base.foot_offset_right
        swing_base_offset ==
            IF support_side = "Left"
            THEN parameters.base.foot_offset_right ELSE parameters.base.foot_offset_left
        desired_end_feet ==
            Feet(<< support_base_offset[1] - FMul(over_estimated[1], Unit \div 2),
                    support_base_offset[2] - FMul(over_estimated[2], Unit \div 2) >>,
                 << swing_base_offset[1] + over_estimated[1],
                    swing_base_offset[2] + over_estimated[2] >>)
        clamped_feet ==
            clamp_feet_to_anatomic_constraints(desired_end_feet, support_side, parameters)
        plan ==
            new_with_start_and_end_feet(ctx, support_side,
                                        last_step_state.plan.start_feet, clamped_feet)
    IN  [step |-> [last_step_state EXCEPT !.plan = plan]]

\* Vector2::norm
norm(vector) == FSqrt(FMul(vector[1], vector[1]) + FMul(vector[2], vector[2]))

\* mutant: a catch that is triggered again always replaces the plan
new_from_catching_always(self, ctx, last_step_state, support_side) ==
    catching_new(ctx, last_step_state, support_side)

\* Catching::new_from_catching
new_from_catching(self, ctx, last_step_state, support_side) ==
    LET new_catching == catching_new(ctx, last_step_state, support_side)
        old_norm == norm(self.step.plan.end_feet.swing_sole)
        new_norm == norm(new_catching.step.plan.end_feet.swing_sole)
    IN  IF new_norm > old_norm THEN new_catching ELSE self

\* (b - a) x (p - a): positive where p lies to the left of the line a b
cross(a, b, p) == (b[1] - a[1]) * (p[2] - a[2]) - (b[2] - a[2]) * (p[1] - a[1])

\* geometry::polygon::is_inside_convex_hull: no line through two of the
\* points has all points on one side and the target strictly on the other
is_inside_convex_hull(points, target) ==
    \A a \in points, b \in points :
        (a # b /\ \A point \in points : cross(a, b, point) >= 0)
            => cross(a, b, target) >= 0

\* is_outside_support_polygon
is_outside_support_polygon(end_feet, support_side, target, current_feet) ==
    LET feet_outlines ==
            sole_outline(current_feet.support_sole)
                \cup sole_outline(current_feet.swing_sole)
                \cup sole_outline(end_feet.swing_sole)
    IN  ~is_inside_convex_hull(feet_outlines, target)

\* should_catch
should_catch(ctx, end_feet, support_side) ==
    LET catching_steps == ctx.parameters.catching_steps
    IN  IF ~catching_steps.enabled THEN FALSE
        ELSE IF is_none(ctx.robot_to_ground) THEN FALSE
        ELSE
        LET current_feet == ctx.current_feet[support_side]
            zmp == ctx.zero_moment_point
            target_scaling_x ==
                IF zmp[1] < 0 THEN catching_steps.target_x_scale_backward
                ELSE catching_steps.target_x_scale_forward
            in_walk == ground_to_walk(ctx, unwrap(ctx.robot_to_ground), zmp)
            target == << FMul(in_walk[1], target_scaling_x),
                         FMul(in_walk[2], catching_steps.target_y_scale) >>
        IN  is_outside_support_polygon(end_feet, support_side, target, current_feet)

\* StepState::is_support_switched: what the context reports of the soles
is_support_switched(step, ctx) == ctx.support_switched

\* Feet::to_step: the swing sole against its base offset
to_step(feet, parameters, support_side) ==
    LET swing_base_offset ==
            IF support_side = "Left"
            THEN parameters.base.foot_offset_right ELSE parameters.base.foot_offset_left
    IN  Step(feet.swing_sole[1] - swing_base_offset[1],
             feet.swing_sole[2] - swing_base_offset[2], 0)

\* Walking::new
walking_new(ctx, requested_step, support_side, last_step) ==
    [requested_step |-> requested_step, support_side |-> support_side,
     last_step |-> last_step]

ModeWalking(walking) == [name |-> "Walking", walking |-> walking]
ModeCatching(catching) == [name |-> "Catching", catching |-> catching]

\* WalkTransition::stand for Catching
catching_stand(self, ctx) ==
    LET current_step == self.step
    IN  IF is_support_switched(current_step, ctx)
        THEN ModeWalking(walking_new(ctx, StepDefault,
                                     opposite(current_step.plan.support_side),
                                     StepDefault))
        ELSE IF should_catch(ctx, current_step.plan.end_feet,
                             current_step.plan.support_side)
        THEN ModeCatching(new_from_catching(self, ctx, self.step,
                                            self.step.plan.support_side))
        ELSE ModeCatching(self)

\* WalkTransition::walk for Catching
catching_walk(self, ctx, requested_step) ==
    LET current_step == self.step
        should_catch_now ==
            should_catch(ctx, current_step.plan.end_feet, current_step.plan.support_side)
    IN  IF is_support_switched(current_step, ctx)
        THEN LET executed_step ==
                    to_step(self.step.plan.end_feet, ctx.parameters,
                            self.step.plan.support_side)
             IN  ModeWalking(walking_new(ctx, StepDefault,
                                         opposite(self.step.plan.support_side),
                                         executed_step))
        ELSE IF should_catch_now
        THEN ModeCatching(new_from_catching(self, ctx, self.step,
                                            self.step.plan.support_side))
        ELSE ModeCatching(self)

\* mutant: a kick command catches again before it looks at the support foot
catching_kick_catching_first(self, ctx, variant, kicking_side, strength) ==
    LET current_step == self.step
    IN  IF should_catch(ctx, current_step.plan.end_feet,
                        current_step.plan.support_side)
        THEN ModeCatching(new_from_catching(self, ctx, self.step,
                                            self.step.plan.support_side))
        ELSE IF is_support_switched(current_step, ctx)
        THEN ModeWalking(walking_new(ctx, StepDefault,
                                     opposite(current_step.plan.support_side),
                                     StepDefault))
        ELSE ModeCatching(self)

\* WalkTransition::kick for Catching
catching_kick(self, ctx, variant, kicking_side, strength) ==
    LET current_step == self.step
    IN  IF is_support_switched(current_step, ctx)
        THEN ModeWalking(walking_new(ctx, StepDefault,
                                     opposite(current_step.plan.support_side),
                                     StepDefault))
        ELSE IF should_catch(ctx, current_step.plan.end_feet,
                             current_step.plan.support_side)
        THEN ModeCatching(new_from_catching(self, ctx, self.step,
                                            self.step.plan.support_side))
        ELSE ModeCatching(self)

\* walking_engine parameters: feet 5 cm to either side, catching steps of
\* up to 30 cm that overshoot the zero moment point by a half
WalkingParameters ==
    [ catching_steps |->
        [ enabled |-> TRUE,
          balance_region_x |-> 50,
          max_target_distance |-> <<300, 300>>,
          over_estimation_factor |-> <<Unit + Unit \div 2, Unit>>,
          target_x_scale_backward |-> Unit,
          target_x_scale_forward |-> Unit,
          target_y_scale |-> Unit ],
      foot_support |-> [min |-> <<-50, -50>>, max |-> <<50, 50>>],
      base |-> [foot_offset_left |-> <<0, 50>>, foot_offset_right |-> <<0, -50>>],
      anatomic_range |-> <<400, 250>> ]

\* Feet::from_joints of the last actuated joints, for either support side
StandingFeet ==
    [ Left |-> Feet(<<0, 50>>, <<0, -50>>), Right |-> Feet(<<0, -50>>, <<0, 50>>) ]

\* the Context of a command: the zero moment point between the feet, ahead,
\* behind and to either side of them; catching steps switched off; no
\* robot_to_ground
WalkingContexts ==
    { [ parameters |->
            [WalkingParameters EXCEPT !.catching_steps.enabled = enabled],
        robot_to_ground |-> robot_to_ground,
        robot_to_walk |-> <<0, 0>>,
        zero_moment_point |-> zero_moment_point,
        current_feet |-> StandingFeet,
        support_switched |-> support_switched ] :
        enabled \in BOOLEAN,
        robot_to_ground \in {None, Some(<<0, 0>>)},
        zero_moment_point \in {<<0, 0>>, <<150, 0>>, <<250, 100>>, <<400, -200>>,
                               <<-200, 0>>, <<20, 200>>, <<20, -200>>},
        support_switched \in BOOLEAN }

\* the commands of the walking engine
WalkingCommands ==
    {[name |-> "stand"]}
        \cup {[name |-> "walk", requested_step |-> requested_step] :
                requested_step \in {StepDefault, Step(40, 0, 0)}}
        \cup {[name |-> "kick", variant |-> "Forward", kicking_side |-> side,
               strength |-> Unit] : side \in {"Left", "Right"}}

\* the step of a Walking mode that a catch interrupts
WalkingStepStates ==
    { [ plan |-> [ support_side |-> side,
                   start_feet |-> StandingFeet[side],
                   end_feet |-> Feet(StandingFeet[side].support_sole,
                                     << StandingFeet[side].swing_sole[1] + 40,
                                        StandingFeet[side].swing_sole[2] >>) ],
        time_since_start |-> 0 ] : side \in {"Left", "Right"} }

\* no walking engine
EngineInit ==
    /\ walking_mode = None
    /\ walking_mode_entry = None
    /\ walking_call = None

\* the walking engine at its entry into Catching: Catching::new from the
\* step of Walking
EngineCatching ==
    /\ \E ctx \in WalkingContexts, last_step_state \in WalkingStepStates :
            walking_mode =
                Some(ModeCatching(catching_new(ctx, last_step_state,
                                               last_step_state.plan.support_side)))
    /\ walking_mode_entry = None
    /\ walking_call = None

\* one command to the mode Catching
CatchingCommand ==
    /\ is_some(walking_mode)
    /\ unwrap(walking_mode).name = "Catching"
    /\ \E command \in WalkingCommands, ctx \in WalkingContexts :
            LET self == unwrap(walking_mode).catching
            IN  /\ walking_mode' =
                        Some(IF command.name = "stand" THEN catching_stand(self, ctx)
                             ELSE IF command.name = "walk"
                             THEN catching_walk(self, ctx, command.requested_step)
                             ELSE catching_kick(self, ctx, command.variant,
                                                command.kicking_side, command.strength))
                /\ walking_mode_entry' = walking_mode
                /\ walking_call' = Some([command |-> command, context |-> ctx])
    /\ UNCHANGED <<filterVars, motionVars, plannerVars, runtimeVars,
                   receiverVars, hypothesisVars,
                   kickVars, behaviorVars, geometryVars>>

(***************************************************************************)
(* behavior/kicking_ball.rs: the behaviour in KickingRollingBall.          *)
(***************************************************************************)
\* std::ops::Range<f32>: the fields start and end that
\* in_walk_kick_area.rs reads of reached_x and reached_y
Range(start, end) == [start |-> start, end |-> end]

\* Range::contains
contains(range, item) == range.start <= item /\ item < range.end

Pose2(position, orientation) == [position |-> position, orientation |-> orientation]

\* Isometry2 * Pose2
TransformPose(isometry, pose) ==
    Pose2(Transform(isometry, pose.position),
          NormalizeAngle(isometry_angle(isometry) + pose.orientation))

\* is_kick_pose_reached
is_kick_pose_reached(kick_pose, kick_info, ground_to_upcoming_support) ==
    LET upcoming_kick_pose == TransformPose(ground_to_upcoming_support, kick_pose)
        is_x_reached == contains(kick_info.reached_x, upcoming_kick_pose.position[1])
        is_y_reached == contains(kick_info.reached_y, upcoming_kick_pose.position[2])
        is_orientation_reached ==
            contains(kick_info.reached_turn, upcoming_kick_pose.orientation)
    IN  is_x_reached /\ is_y_reached /\ is_orientation_reached

Stand(head) == [name |-> "Stand", head |-> head]
LookAt(target) ==
    [name |-> "LookAt", target |-> target, image_region_target |-> "Center",
     camera |-> None]

\* Iterator::find: the first of the decisions from `index` on whose kick
\* pose is reached
RECURSIVE find_reached(_, _, _, _)
find_reached(decisions, index, in_walk_kicks, ground_to_upcoming_support) ==
    IF index > Len(decisions) THEN None
    ELSE IF is_kick_pose_reached(decisions[index].kick_pose,
                                 in_walk_kicks[decisions[index].variant],
                                 ground_to_upcoming_support)
    THEN Some(decisions[index])
    ELSE find_reached(decisions, index + 1, in_walk_kicks, ground_to_upcoming_support)

\* kicking_ball::execute
execute(world_state, in_walk_kicks) ==
    LET primary_state == world_state.robot.primary_state
    IN  IF primary_state.name = "KickingRollingBall"
                /\ primary_state.ramp_direction = "Right" /\ is_none(world_state.ball)
        THEN Some(Stand([name |-> "SearchRight"]))
        ELSE IF primary_state.name = "KickingRollingBall"
                /\ primary_state.ramp_direction = "Left" /\ is_none(world_state.ball)
        THEN Some(Stand([name |-> "SearchLeft"]))
        ELSE IF primary_state.name = "KickingRollingBall"
        THEN
            LET head == LookAt(unwrap(world_state.ball).ball_in_ground)
            IN  IF is_none(world_state.kick_decisions) THEN None
                ELSE IF is_none(world_state.instant_kick_decisions) THEN None
                ELSE
                LET available_kick ==
                        find_reached(unwrap(world_state.kick_decisions)
                                        \o unwrap(world_state.instant_kick_decisions),
                                     1, in_walk_kicks,
                                     world_state.robot.ground_to_upcoming_support)
                IN  IF is_some(available_kick)
                    THEN Some([ name |-> "InWalkKick",
                                head |-> head,
                                kick |-> unwrap(available_kick).variant,
                                kicking_side |-> unwrap(available_kick).kicking_side,
                                strength |-> unwrap(available_kick).strength,
                                left_arm |-> "Swing",
                                right_arm |-> "Swing" ])
                    ELSE Some(Stand(head))
        ELSE None

\* InWalkKicksParameters: the bands of a reached kick pose, in thousandths
\* of a metre and of a radian
InWalkKicks ==
    [ Forward |-> [ reached_x |-> Range(-50, 50), reached_y |-> Range(-30, 30),
                    reached_turn |-> Range(-200, 200) ],
      Side |-> [ reached_x |-> Range(-20, 20), reached_y |-> Range(-30, 30),
                 reached_turn |-> Range(-100, 100) ] ]

KickDecision(variant, kicking_side, kick_pose, strength) ==
    [variant |-> variant, kicking_side |-> kicking_side, kick_pose |-> kick_pose,
     strength |-> strength]

\* kick poses inside, on the bounds of and outside the bands
KickPoses ==
    { Pose2(<<0, 0>>, 0), Pose2(<<-50, 0>>, 0), Pose2(<<50, 0>>, 0),
      Pose2(<<0, -30>>, 0), Pose2(<<0, 30>>, 0), Pose2(<<0, 0>>, -200),
      Pose2(<<0, 0>>, 200), Pose2(<<80, 0>>, 0), Pose2(<<30, 10>>, 150) }

\* the lists of kick decisions of a world state
KickDecisionLists ==
    {<<>>}
        \cup {<<KickDecision("Forward", side, kick_pose, Unit)>> :
                side \in {"Left", "Right"}, kick_pose \in KickPoses}
        \cup {<<KickDecision("Side", "Left", Pose2(<<80, 0>>, 0), Unit),
                KickDecision("Forward", "Right", kick_pose, Unit \div 2)>> :
                kick_pose \in {Pose2(<<0, 0>>, 0), Pose2(<<80, 0>>, 0)}}

InstantKickDecisionLists ==
    { <<>>,
      <<KickDecision("Forward", "Left", Pose2(<<10, 10>>, 0), Unit)>>,
      <<KickDecision("Side", "Right", Pose2(<<0, 0>>, 150), Unit)>> }

PrimaryStates ==
    { [name |-> "Unstiff"], [name |-> "Playing"], [name |-> "Penalized"],
      [name |-> "KickingRollingBall", ramp_direction |-> "Left"],
      [name |-> "KickingRollingBall", ramp_direction |-> "Right"] }

\* the world states execute is called with
WorldStates ==
    { [ robot |-> [ primary_state |-> primary_state,
                    ground_to_upcoming_support |-> ground_to_upcoming_support ],
        ball |-> ball,
        kick_decisions |-> kick_decisions,
        instant_kick_decisions |-> instant_kick_decisions ] :
        primary_state \in PrimaryStates,
        ground_to_upcoming_support \in
            { [half_turn |-> FALSE, translation |-> <<0, 0>>],
              [half_turn |-> FALSE, translation |-> <<-30, 20>>] },
        ball \in {None, Some([ball_in_ground |-> <<100, 20>>])},
        kick_decisions \in {None} \cup {Some(list) : list \in KickDecisionLists},
        instant_kick_decisions \in
            {None} \cup {Some(list) : list \in InstantKickDecisionLists} }

\* all kick decisions of a world state, in the order of the search
all_decisions(world_state) ==
    (IF is_some(world_state.kick_decisions)
     THEN unwrap(world_state.kick_decisions) ELSE <<>>)
        \o (IF is_some(world_state.instant_kick_decisions)
            THEN unwrap(world_state.instant_kick_decisions) ELSE <<>>)

\* no call of the behaviour
BehaviorIdle == behavior_call = None

\* a call of execute that is about to be made
BehaviorInit ==
    \E world_state \in WorldStates :
        behavior_call =
            Some([world_state |-> world_state, returned |-> FALSE, ret |-> None,
                  reached |-> <<>>])

\* the call of execute; `reached` is is_kick_pose_reached of every decision
\* of the world state
Execute ==
    /\ is_some(behavior_call)
    /\ ~unwrap(behavior_call).returned
    /\ LET world_state == unwrap(behavior_call).world_state
           decisions == all_decisions(world_state)
       IN  behavior_call' =
                Some([ world_state |-> world_state,
                       returned |-> TRUE,
                       ret |-> execute(world_state, InWalkKicks),
                       reached |->
                            [index \in 1..Len(decisions) |->
                                is_kick_pose_reached(
                                    decisions[index].kick_pose,
                                    InWalkKicks[decisions[index].variant],
                                    world_state.robot.ground_to_upcoming_support)] ])
    /\ UNCHANGED <<filterVars, motionVars, plannerVars, runtimeVars,
                   receiverVars, hypothesisVars,
                   kickVars, engineVars, geometryVars>>

(***************************************************************************)
(* geometry/line_segment.rs: the intersection of two line segments, on     *)
(* points with whole coordinates.                                          *)
(***************************************************************************)
\* LineSegment::flip
flip(self) == LineSegment(self.end, self.start)

\* Rotate90Degrees::rotate_90_degrees
rotate_90_degrees(vector, direction) ==
    IF direction = "Clockwise" THEN <<vector[2], -vector[1]>>
    ELSE <<-vector[2], vector[1]>>

\* Vector2::dot
dot(a, b) == a[1] * b[1] + a[2] * b[2]

\* LineSegment::get_direction
get_direction(self, point) ==
    LET direction_vector == <<self.end[1] - self.start[1], self.end[2] - self.start[2]>>
        clockwise_normal_vector == rotate_90_degrees(direction_vector, "Clockwise")
        directed_cathetus ==
            dot(clockwise_normal_vector,
                <<point[1] - self.start[1], point[2] - self.start[2]>>)
    IN  IF directed_cathetus = 0 THEN "Collinear"
        ELSE IF directed_cathetus > 0 THEN "Clockwise"
        ELSE "Counterclockwise"

\* f32::min and f32::max
min(a, b) == IF a < b THEN a ELSE b
max(a, b) == IF a > b THEN a ELSE b

\* LineSegment::bounding_box_contains
bounding_box_contains(self, point) ==
    /\ point[1] > min(self.start[1], self.end[1])
    /\ point[1] < max(self.start[1], self.end[1])
    /\ point[2] < max(self.start[2], self.end[2])
    /\ point[2] > min(self.start[2], self.end[2])

\* LineSegment::overlaps_collinear_line_segment
overlaps_collinear_line_segment(self, other) ==
    \/ bounding_box_contains(self, other.start)
    \/ bounding_box_contains(self, other.end)
    \/ bounding_box_contains(other, self.start)
    \/ bounding_box_contains(other, self.end)

\* LineSegment::intersects_line_segment
intersects_line_segment(self, other) ==
    LET orientation_other_points_to_self ==
            <<get_direction(self, other.start), get_direction(self, other.end)>>
    IN  IF orientation_other_points_to_self \in
                { <<"Counterclockwise", "Counterclockwise">>, <<"Clockwise", "Clockwise">> }
        THEN FALSE
        ELSE IF orientation_other_points_to_self = <<"Collinear", "Collinear">>
        THEN overlaps_collinear_line_segment(self, other)
        ELSE
        LET orientation_self_points_to_other ==
                <<get_direction(other, self.start), get_direction(other, self.end)>>
        IN  \/ orientation_self_points_to_other[1] # orientation_self_points_to_other[2]
            \/ orientation_self_points_to_other[1] = "Collinear"

\* the coordinates of the end points are 0..MaxCoordinate
MaxCoordinate == 3

Points == (0..MaxCoordinate) \X (0..MaxCoordinate)

\* no call of the intersection
GeometryIdle == intersection_call = None

\* two line segments whose intersection is about to be computed
GeometryInit ==
    \E a_start \in Points, a_end \in Points, b_start \in Points, b_end \in Points :
        intersection_call =
            Some([reference_line_segment |-> LineSegment(a_start, a_end),
                  line_segment |-> LineSegment(b_start, b_end),
                  intersects |-> <<>>])

\* the eight calls of tests::test_all_permutations, in its order
Intersect ==
    /\ is_some(intersection_call)
    /\ unwrap(intersection_call).intersects = <<>>
    /\ LET reference_line_segment == unwrap(intersection_call).reference_line_segment
           line_segment == unwrap(intersection_call).line_segment
       IN  intersection_call' =
                Some([unwrap(intersection_call) EXCEPT !.intersects =
                    << intersects_line_segment(reference_line_segment, line_segment),
                       intersects_line_segment(reference_line_segment, flip(line_segment)),
                       intersects_line_segment(flip(reference_line_segment), line_segment),
                       intersects_line_segment(flip(reference_line_segment),
                                               flip(line_segment)),
                       intersects_line_segment(line_segment, reference_line_segment),
                       intersects_line_segment(line_segment, flip(reference_line_segment)),
                       intersects_line_segment(flip(line_segment), reference_line_segment),
                       intersects_line_segment(flip(line_segment),
                                               flip(reference_line_segment)) >>])
    /\ UNCHANGED <<filterVars, motionVars, plannerVars, runtimeVars,
                   receiverVars, hypothesisVars,
                   kickVars, engineVars, behaviorVars>>

(***************************************************************************)
(* communication/server/runtime.rs: Runtime::start and the thread it       *)
(* spawns.  The caller and the thread take their steps in any order; they  *)
(* meet in the oneshot channel and in the JoinHandle of the thread.        *)
(***************************************************************************)
\* oneshot::channel
oneshot_channel == [value |-> None, sends |-> 0, closed |-> FALSE]

\* mutant: the value is not sent
send_nothing(channel, value) == channel

\* oneshot::Sender::send
send(channel, value) == [channel EXCEPT !.value = Some(value), !.sends = @ + 1]

\* StartError
StartError(name) == [name |-> "Err", error |-> name]

\* the thread, at `pc` with its locals and, once it has returned, its result
Thread(pc, locals, ret) == [pc |-> pc, locals |-> locals, ret |-> ret]

\* the Parameters that deserialize may yield
InitialParameters == {"parameters_of_body", "parameters_of_head"}

\* the errors of the acceptor task
AcceptResults == {[name |-> "Ok"], [name |-> "Err", error |-> "AcceptError"]}

RuntimeInit ==
    /\ start_call = None
    /\ communication = Thread("not_spawned", <<>>, None)
    /\ runtime_channel = oneshot_channel
    /\ keep_running = FALSE

\* Runtime::start is called and spawns the thread, lines 68-165: where the
\* thread is not started the closure and its runtime_sender are dropped and
\* start returns the error
Start ==
    /\ is_none(start_call)
    /\ \E addresses \in {None, Some("addresses")}, spawned \in BOOLEAN :
        IF spawned
        THEN /\ start_call' = Some([pc |-> "blocking_recv", ret |-> None])
             /\ communication' = Thread("build", [addresses |-> addresses], None)
             /\ UNCHANGED runtime_channel
        ELSE /\ start_call' =
                    Some([pc |-> "returned", ret |-> Some(StartError("ThreadNotStarted"))])
             /\ runtime_channel' = [runtime_channel EXCEPT !.closed = TRUE]
             /\ UNCHANGED communication
    /\ UNCHANGED <<keep_running, filterVars, motionVars, plannerVars, receiverVars,
                   hypothesisVars, kickVars, engineVars, behaviorVars, geometryVars>>

\* a step of the thread that leaves the caller alone
ThreadStep(thread, channel) ==
    /\ communication' = thread
    /\ runtime_channel' = channel
    /\ UNCHANGED <<start_call, keep_running, filterVars, motionVars, plannerVars,
                   receiverVars, hypothesisVars, kickVars, engineVars, behaviorVars,
                   geometryVars>>

\* lines 73-81: the tokio runtime is built, or is not and None is sent
BuildRuntime ==
    /\ communication.pc = "build"
    /\ \E built \in BOOLEAN :
        IF built
        THEN ThreadStep([communication EXCEPT !.pc = "deserialize"], runtime_channel)
        ELSE ThreadStep([communication EXCEPT !.pc = "return",
                            !.ret = Some(StartError("RuntimeNotStarted"))],
                        send(runtime_channel, None))

\* lines 85-94: the initial parameters are parsed, or are not and None is sent
Deserialize ==
    /\ communication.pc = "deserialize"
    /\ \/ \E initial_parameters \in InitialParameters :
            ThreadStep([communication EXCEPT !.pc = "send",
                            !.locals = [addresses |-> communication.locals.addresses,
                                        initial_parameters |-> initial_parameters]],
                       runtime_channel)
       \/ ThreadStep([communication EXCEPT !.pc = "return",
                            !.ret = Some(StartError("InitialParametersNotParsed"))],
                      send(runtime_channel, None))

\* lines 96-111: the channels are made and the runtime is sent to the caller
SendRuntime ==
    /\ communication.pc = "send"
    /\ ThreadStep([communication EXCEPT !.pc = "cancelled"],
                  send(runtime_channel,
                       Some([runtime |-> "inner_runtime",
                             outputs_sender |-> "outputs_sender",
                             parameters_reader |->
                                communication.locals.initial_parameters])))

\* lines 113-136: the tasks are started, and keep_running.cancelled() is
\* awaited until the token is cancelled
AwaitCancelled ==
    /\ communication.pc = "cancelled"
    /\ keep_running
    /\ ThreadStep([communication EXCEPT !.pc = "tasks"], runtime_channel)

\* lines 138-162: the tasks are awaited and their errors collected
AwaitTasks ==
    /\ communication.pc = "tasks"
    /\ \E acceptor_task_result \in AcceptResults :
        LET task_errors ==
                IF /\ is_some(communication.locals.addresses)
                   /\ acceptor_task_result.name = "Err"
                THEN <<StartError("AcceptError")>> ELSE <<>>
        IN  ThreadStep([communication EXCEPT !.pc = "return",
                            !.ret = IF task_errors = <<>> THEN Some([name |-> "Ok"])
                                    ELSE Some([name |-> "Err", error |-> "TasksErrored",
                                               task_errors |-> task_errors])],
                       runtime_channel)

\* the closure returns: the thread can be joined
ThreadReturn ==
    /\ communication.pc = "return"
    /\ ThreadStep([communication EXCEPT !.pc = "returned"], runtime_channel)

\* a step of the caller that leaves the thread alone
CallerStep(call) ==
    /\ start_call' = Some(call)
    /\ UNCHANGED <<communication, runtime_channel, keep_running, filterVars,
                   motionVars, plannerVars, receiverVars, hypothesisVars, kickVars,
                   engineVars, behaviorVars, geometryVars>>

\* lines 167-185: blocking_recv returns once a value is sent or the sender is
\* dropped; ret is None where start panics
BlockingRecv ==
    /\ is_some(start_call)
    /\ unwrap(start_call).pc = "blocking_recv"
    /\ (IF is_some(runtime_channel.value) THEN TRUE ELSE runtime_channel.closed)
    /\ IF is_none(runtime_channel.value)
       THEN CallerStep([pc |-> "panicked", ret |-> None])
       ELSE IF is_some(unwrap(runtime_channel.value))
       THEN CallerStep([pc |-> "returned",
                        ret |-> Some([name |-> "Ok",
                                      value |-> unwrap(unwrap(runtime_channel.value))])])
       ELSE CallerStep([pc |-> "join", ret |-> None])

\* lines 173-176: join_handle.join() returns once the thread has returned
JoinThread ==
    /\ is_some(start_call)
    /\ unwrap(start_call).pc = "join"
    /\ communication.pc = "returned"
    /\ IF unwrap(communication.ret).name = "Err"
       THEN CallerStep([pc |-> "returned", ret |-> communication.ret])
       ELSE CallerStep([pc |-> "panicked", ret |-> None])

\* CancellationToken::cancel, by whoever holds the token
Cancel ==
    /\ ~keep_running
    /\ keep_running' = TRUE
    /\ UNCHANGED <<start_call, communication, runtime_channel, filterVars, motionVars,
                   plannerVars, receiverVars, hypothesisVars, kickVars, engineVars,
                   behaviorVars, geometryVars>>

\* everything but the three nodes above, as constructed and without calls
RestInit ==
    /\ ReceiverInit /\ HypothesisInit /\ KickInit /\ EngineInit
    /\ BehaviorIdle /\ GeometryIdle /\ RuntimeInit

InitReceiver == ControlInit /\ RestInit

InitCatching ==
    /\ ControlInit /\ ReceiverInit /\ HypothesisInit /\ KickInit /\ EngineCatching
    /\ BehaviorIdle /\ GeometryIdle /\ RuntimeInit

NextCatching == CatchingCommand

SpecCatching == InitCatching /\ [][NextCatching]_vars

InitBehavior ==
    /\ ControlInit /\ ReceiverInit /\ HypothesisInit /\ KickInit /\ EngineInit
    /\ BehaviorInit /\ GeometryIdle /\ RuntimeInit

NextBehavior == Execute

SpecBehavior == InitBehavior /\ [][NextBehavior]_vars

InitIntersection ==
    /\ ControlInit /\ ReceiverInit /\ HypothesisInit /\ KickInit /\ EngineInit
    /\ BehaviorIdle /\ GeometryInit /\ RuntimeInit

NextIntersection == Intersect

SpecIntersection == InitIntersection /\ [][NextIntersection]_vars

InitKick == ControlInit /\ RestInit

NextKick == KickNew \/ KickAdvance \/ KickIsFinished

SpecKick == InitKick /\ [][NextKick]_vars

NextOverlay == KickNew \/ KickAdvance \/ OverrideWithKick

SpecOverlay == InitKick /\ [][NextOverlay]_vars

InitHypothesis == ControlInit /\ RestInit

NextHypothesis == HypothesisNew \/ HypothesisPredict \/ HypothesisUpdate \/ HypothesisMerge

SpecHypothesis == InitHypothesis /\ [][NextHypothesis]_vars

ThreadNext ==
    \/ BuildRuntime \/ Deserialize \/ SendRuntime \/ AwaitCancelled \/ AwaitTasks
    \/ ThreadReturn

CallerNext == BlockingRecv \/ JoinThread

NextRuntime == Start \/ ThreadNext \/ CallerNext \/ Cancel

\* the thread and the caller are scheduled: neither waits forever for a step
\* it can take
SpecRuntime ==
    /\ InitReceiver /\ [][NextRuntime]_vars
    /\ WF_vars(Start) /\ WF_vars(ThreadNext) /\ WF_vars(CallerNext)

NextReceiver == ReceiverCycle

SpecReceiver == InitReceiver /\ [][NextReceiver]_vars

\* one GameControllerStateFilter::cycle, its inputs drawn from `inputs`
FilterCycle(inputs) ==
    \E duration \in 1..MaxCycleDuration,
       game_controller_state \in inputs.game_controller_states,
       is_detected \in inputs.filtered_whistles,
       visual_referee_proceed_to_ready \in inputs.visual_referee_proceed_to_ready,
       observation \in inputs.observations,
       ball_seen \in inputs.last_ball_states,
       detected_free_kick_kicking_team \in inputs.detected_free_kick_kicking_teams :
        LET start_time == context.cycle_time.start_time + duration
            last_ball_state == LastBallStateAt(ball_seen, start_time)
            ctx == [context EXCEPT
                !.ball_position = observation.ball_position,
                !.cycle_time = [start_time |-> start_time],
                !.filtered_whistle = [is_detected |-> is_detected],
                !.visual_referee_proceed_to_ready = visual_referee_proceed_to_ready,
                !.detected_free_kick_kicking_team = detected_free_kick_kicking_team,
                !.game_controller_state = game_controller_state,
                !.ground_to_field = observation.ground_to_field,
                !.last_ball_state = last_ball_state]
            result == filter_cycle(filter, ctx)
        IN  /\ start_time <= MaxTime
            /\ filter' = result.self
            /\ filter_entry' = entry_states(filter)
            /\ filter_locals' = result.locals
            /\ context' = ctx
            /\ main_outputs' = result.ret
            /\ UNCHANGED <<motionVars, plannerVars, restVars>>

NextFilter == FilterCycle(WhistleInputs)

InitFilter == FilterInit(Configs) /\ MotionInit /\ PlannerInit /\ RestInit

SpecFilter == InitFilter /\ [][NextFilter]_vars

NextPlaying == FilterCycle(PlayingInputs)

SpecPlaying == InitFilter /\ [][NextPlaying]_vars

NextFinish == FilterCycle(FinishInputs)

SpecFinish == InitFilter /\ [][NextFinish]_vars

NextViews == FilterCycle(ViewInputs)

SpecViews == InitFilter /\ [][NextViews]_vars

NextSetPlay == FilterCycle(SetPlayInputs)

SpecSetPlay == InitFilter /\ [][NextSetPlay]_vars

NextPushing == FilterCycle(PushingInputs)

SpecPushing == InitFilter /\ [][NextPushing]_vars

NextStandby == FilterCycle(StandbyInputs)

SpecStandby == InitFilter /\ [][NextStandby]_vars

InitPlanner == ControlInit /\ RestInit

NextTurn == PlannerCycle(TurnInputs)

SpecTurn == InitPlanner /\ [][NextTurn]_vars

NextSpeed == PlannerCycle(SpeedInputs)

SpecSpeed == InitPlanner /\ [][NextSpeed]_vars

NextIdle == PlannerCycle(IdleInputs)

SpecIdle == InitPlanner /\ [][NextIdle]_vars

NextPath == PlannerCycle(PathInputs)

SpecPath == InitPlanner /\ [][NextPath]_vars

InitClamp ==
    /\ FilterInit({Config(1, 2, 1, 2)}) /\ MotionInit /\ PlannerNodeInit /\ RestInit
    /\ \E call \in ClampCalls :
            clamp_call = [request |-> call.request,
                          walk_volume |-> Some(call.walk_volume), result |-> None]

NextClamp == ClampStep

SpecClamp == InitClamp /\ [][NextClamp]_vars

\* the tables of safe exits a cycle may read
SafeExitTables == {fill(TRUE), fill(FALSE), default_safe_exits}

\* a stand_up_count of MaxStandUpCount is not incremented further
MaxStandUpCount == 2

\* one MotionSelector::cycle
MotionSelectorCycle ==
    \E motion_command \in MotionCommands,
       has_ground_contact \in BOOLEAN,
       motion_safe_exits \in SafeExitTables :
        LET ctx == [ motion_command |-> motion_command,
                     has_ground_contact |-> has_ground_contact,
                     motion_safe_exits |-> motion_safe_exits ]
            result == selector_cycle(selector, ctx)
        IN  /\ is_none(held_command)
            /\ result.self.stand_up_count <= MaxStandUpCount
            /\ selector' = result.self
            /\ selector_entry' = selector
            /\ motion_context' = ctx
            /\ motion_selection' = result.ret
            /\ UNCHANGED <<held_command, filterVars, plannerVars, restVars>>

NextMotion == MotionSelectorCycle

InitMotion == ControlInit /\ RestInit

SpecMotion == InitMotion /\ [][NextMotion]_vars

\* from now on the behavior requests motion_command in every cycle; the one
\* stand_up_count left keeps the first entry into a requested stand-up possible
HoldCommand ==
    \E motion_command \in MotionCommands :
        /\ is_none(held_command)
        /\ selector.stand_up_count < MaxStandUpCount
        /\ held_command' = Some(motion_command)
        /\ UNCHANGED <<selector, selector_entry, motion_context, motion_selection,
                       filterVars, plannerVars, restVars>>

\* one MotionSelector::cycle with the held command and ground contact, the
\* last motion reporting motion_safe_to_exit
HeldCycle(motion_safe_to_exit) ==
    \E motion_safe_exits \in SafeExitTables :
        LET ctx == [ motion_command |-> unwrap(held_command),
                     has_ground_contact |-> TRUE,
                     motion_safe_exits |-> motion_safe_exits ]
            result == selector_cycle(selector, ctx)
        IN  /\ is_some(held_command)
            /\ motion_safe_exits[selector.last_motion] = motion_safe_to_exit
            /\ result.self.stand_up_count <= MaxStandUpCount
            /\ selector' = result.self
            /\ selector_entry' = selector
            /\ motion_context' = ctx
            /\ motion_selection' = result.ret
            /\ UNCHANGED <<held_command, filterVars, plannerVars, restVars>>

HeldSafeCycle == HeldCycle(TRUE)

HeldUnsafeCycle == HeldCycle(FALSE)

NextDispatch == MotionSelectorCycle \/ HoldCommand \/ HeldSafeCycle \/ HeldUnsafeCycle

\* every motion that is current eventually reports safe-to-exit: a cycle in
\* which it does, and which changes the state, is not put off forever
SpecDispatch == InitMotion /\ [][NextDispatch]_vars /\ WF_vars(HeldSafeCycle)

(***************************************************************************)
(* Properties of the game-state filter.  They speak about the most recent  *)
(* cycle: its inputs (context), the states it started from (filter_entry), *)
(* the states it left (filter) and what it emitted (main_outputs).         *)
(***************************************************************************)
cycled == is_some(main_outputs)
emitted == unwrap(main_outputs)
game_controller_state == context.game_controller_state
now == context.cycle_time.start_time
is_whistle_detected == context.filtered_whistle.is_detected
playing_delay ==
    context.config.playing_message_delay + context.config.game_controller_controller_delay
ready_delay ==
    context.config.ready_message_delay + context.config.game_controller_controller_delay

\* a player of either team is penalized for motion in set in `current` and had
\* no penalty in `last`
NewMotionInSetPenalty(last, current) ==
    \E player \in PlayerNumbers :
        \/ /\ last.penalties[player] = NoPenalty
           /\ current.penalties[player] = "IllegalMotionInSet"
        \/ /\ last.opponent_penalties[player] = NoPenalty
           /\ current.opponent_penalties[player] = "IllegalMotionInSet"

\* the filter given by `entry` had waited in WhistleInSet for the whole delay
WaitedInWhistleInSet(entry) ==
    /\ entry.name = "WhistleInSet"
    /\ now - entry.time_when_whistle_was_detected >= playing_delay
    /\ ~filter_locals.did_receive_motion_in_set_penalty

\* C1 as stated: Playing is emitted (for own or opponent) only if the game
\* controller state of the cycle is Playing, or the filter has been in WhistleInSet
\* for at least playing_message_delay + game_controller_controller_delay without a
\* motion-in-set penalty.
C1_PlayingOnlyAfterDelay ==
    cycled =>
        /\ emitted.game_state.name = "Playing" =>
            \/ game_controller_state.game_state = "Playing"
            \/ WaitedInWhistleInSet(filter_entry.state)
        /\ emitted.opponent_game_state.name = "Playing" =>
            \/ game_controller_state.game_state = "Playing"
            \/ WaitedInWhistleInSet(filter_entry.opponent_state)

\* the game controller is in Set and the filter given by `entry` and `after`
\* heard the whistle in Set: in this cycle, or in an earlier one with no
\* motion-in-set penalty in this cycle
WhistledInSet(entry, after) ==
    /\ game_controller_state.game_state = "Set"
    /\ \/ /\ entry.name = "Set"
          /\ is_whistle_detected
          /\ after = WhistleInSet(now)
       \/ /\ entry.name = "WhistleInSet"
          /\ ~filter_locals.did_receive_motion_in_set_penalty
          /\ after = IF now - entry.time_when_whistle_was_detected < playing_delay
                     THEN entry ELSE StatePlaying

\* C1 amended: Playing is emitted (for own or opponent) only if the game
\* controller state of the cycle is Playing, or the game controller is in Set and
\* the filter heard the whistle in Set, in this cycle or earlier, with no
\* motion-in-set penalty since: Playing is emitted from the whistle on and not
\* only after the delay.
C1_PlayingOnlyIfPlayingOrWhistledInSet ==
    cycled =>
        /\ emitted.game_state.name = "Playing" =>
            \/ game_controller_state.game_state = "Playing"
            \/ WhistledInSet(filter_entry.state, filter.state)
        /\ emitted.opponent_game_state.name = "Playing" =>
            \/ game_controller_state.game_state = "Playing"
            \/ WhistledInSet(filter_entry.opponent_state, filter.opponent_state)

\* the whistle was detected in Set in this cycle and Playing is emitted at once
C1_Witness ==
    /\ cycled
    /\ filter_entry.state = StateSet
    /\ filter.state = WhistleInSet(now)
    /\ game_controller_state.game_state = "Set"
    /\ emitted.game_state.name = "Playing"
    /\ playing_delay > 0

\* C2: with the game controller in Set and the filter in WhistleInSet(t), a cycle
\* that sees a new IllegalMotionInSet penalty (own or opponent) reverts to Set;
\* any other cycle keeps WhistleInSet(t) while now - t < playing_message_delay +
\* game_controller_controller_delay and moves to Playing once now - t reaches it.
C2_WhistleInSetStep ==
    (/\ filter.state.name = "WhistleInSet"
     /\ context'.game_controller_state.game_state = "Set")
        => filter'.state =
            IF NewMotionInSetPenalty(unwrap(filter.last_game_controller_state),
                                     context'.game_controller_state)
            THEN StateSet
            ELSE IF context'.cycle_time.start_time
                        - filter.state.time_when_whistle_was_detected
                    < context'.config.playing_message_delay
                        + context'.config.game_controller_controller_delay
                 THEN filter.state ELSE StatePlaying

C2_WhistleInSetToPlayingOrSet == [][C2_WhistleInSetStep]_vars

\* the filter left WhistleInSet for Playing with the game controller still in Set
C2_Witness ==
    /\ cycled
    /\ filter_entry.state.name = "WhistleInSet"
    /\ game_controller_state.game_state = "Set"
    /\ filter.state = StatePlaying
    /\ now - filter_entry.state.time_when_whistle_was_detected >= playing_delay

\* C3: with the game controller in Set and the filter in Set, a cycle without a
\* detected whistle leaves the state Set and emits Set for the own team; a cycle
\* with a detected whistle moves to WhistleInSet stamped with its start time.
C3_SetAwaitsWhistle ==
    (/\ cycled
     /\ filter_entry.state = StateSet
     /\ game_controller_state.game_state = "Set")
        => IF is_whistle_detected
           THEN filter.state = WhistleInSet(now)
           ELSE filter.state = StateSet /\ emitted.game_state = Filtered("Set")

\* a whistle was detected in Set after a cycle in Set without one
C3_Witness ==
    /\ cycled
    /\ filter_entry.state = StateSet
    /\ game_controller_state.game_state = "Set"
    /\ is_whistle_detected
    /\ filter.state = WhistleInSet(now)
    /\ now > 1

\* the observations whose ball is far from both goals: in midfield, 0.5 m and
\* more from the goal line, or more than 0.5 m to the side of a goal
BallObservedFarFromGoals ==
    [ground_to_field |-> context.ground_to_field, ball_position |-> context.ball_position]
        \in {BallInMidfield, BallBesideGoal}

\* C4: with the filter in Playing and the game controller in Playing, the state
\* becomes WhistleInPlaying(now) only if a whistle is detected and the observed
\* ball is not far from any goal; with the ball far from every goal (ball at
\* (3.8, 0), field 9.0 long, acceptance distance (0.5, 0.5)) a whistle leaves the
\* state Playing.  WhistleInPlaying(t) returns to Playing in the first cycle with
\* now - t >= ready_message_delay + game_controller_controller_delay.
C4_WhistleInPlaying ==
    (cycled /\ game_controller_state.game_state = "Playing") =>
        /\ filter_entry.state = StatePlaying =>
            /\ filter.state \in {StatePlaying, WhistleInPlaying(now)}
            /\ filter.state = WhistleInPlaying(now) =>
                    is_whistle_detected /\ ~BallObservedFarFromGoals
            /\ (is_whistle_detected /\ BallObservedFarFromGoals) =>
                    filter.state = StatePlaying
        /\ filter_entry.state.name = "WhistleInPlaying" =>
            filter.state =
                IF now - filter_entry.state.time_when_whistle_was_detected >= ready_delay
                THEN StatePlaying ELSE filter_entry.state

\* a whistle in Playing with the ball at (3.8 m, 0) left the state Playing
C4_Witness ==
    /\ cycled
    /\ filter_entry.state = StatePlaying
    /\ game_controller_state.game_state = "Playing"
    /\ is_whistle_detected
    /\ context.ground_to_field = BallInMidfield.ground_to_field
    /\ context.ball_position = BallInMidfield.ball_position
    /\ filter.state = StatePlaying

\* C9: a game controller state Finished takes the filter from every state but
\* Finished and TentativeFinished to TentativeFinished stamped with the cycle
\* start time; TentativeFinished(t) becomes Finished once the game controller is
\* still Finished with now - t >= tentative_finish_duration, and keeps its stamp
\* before; when the game controller leaves Finished earlier the state follows the
\* game controller; Finished is entered in no other way, and no Finished game
\* state is emitted while the state is TentativeFinished.
C9_FinishedIsTentative ==
    cycled =>
        LET entry == filter_entry.state
            reported == game_controller_state.game_state
        IN  /\ (entry.name \notin {"Finished", "TentativeFinished"}
                /\ reported = "Finished") => filter.state = TentativeFinished(now)
            /\ (entry.name = "TentativeFinished" /\ reported = "Finished") =>
                filter.state =
                    IF now - entry.time_when_finished_clicked
                        >= context.config.tentative_finish_duration
                    THEN StateFinished ELSE entry
            /\ (entry.name = "TentativeFinished" /\ reported # "Finished") =>
                filter.state = [name |-> reported]
            /\ (filter.state = StateFinished /\ entry # StateFinished) =>
                /\ entry.name = "TentativeFinished"
                /\ reported = "Finished"
                /\ now - entry.time_when_finished_clicked
                    >= context.config.tentative_finish_duration
            /\ filter.state.name = "TentativeFinished" =>
                /\ emitted.game_state = Filtered("Set")
                /\ reported = "Finished"

\* the game controller stayed Finished for the tentative duration
C9_Witness ==
    /\ cycled
    /\ filter_entry.state.name = "TentativeFinished"
    /\ filter.state = StateFinished
    /\ game_controller_state.game_phase = "Normal"
    /\ emitted.game_state = Filtered("Finished")

\* C10: in a cycle whose game phase is PenaltyShootout neither team's emitted
\* game state is Finished, and when the game controller reports Finished both
\* are Set.
C10_NoFinishedInPenaltyShootout ==
    (cycled /\ game_controller_state.game_phase = "PenaltyShootout") =>
        /\ emitted.game_state.name # "Finished"
        /\ emitted.opponent_game_state.name # "Finished"
        /\ game_controller_state.game_state = "Finished" =>
            /\ emitted.game_state = Filtered("Set")
            /\ emitted.opponent_game_state = Filtered("Set")

\* the filter reached Finished during a penalty shootout and emits Set
C10_Witness ==
    /\ cycled
    /\ game_controller_state.game_phase = "PenaltyShootout"
    /\ game_controller_state.game_state = "Finished"
    /\ filter.state = StateFinished
    /\ emitted.game_state = Filtered("Set")

\* C11: in a cycle entered in Standby with the game controller in Standby the
\* state (own and opponent) becomes Ready exactly when the visual referee's
\* proceed-to-ready flag is true and stays Standby otherwise; in a cycle entered
\* in Ready with the game controller in Standby the state stays Ready, whatever
\* the flag is.
C11_StandbyToReadyOnSignal ==
    cycled /\ game_controller_state.game_state = "Standby" =>
        /\ filter_entry.state = StateStandby =>
                filter.state = (IF context.visual_referee_proceed_to_ready
                                THEN StateReady ELSE StateStandby)
        /\ filter_entry.opponent_state = StateStandby =>
                filter.opponent_state = (IF context.visual_referee_proceed_to_ready
                                         THEN StateReady ELSE StateStandby)
        /\ filter_entry.state = StateReady => filter.state = StateReady
        /\ filter_entry.opponent_state = StateReady => filter.opponent_state = StateReady

\* a cycle entered in Ready, the game controller in Standby and the flag
\* cleared: the state stays Ready and Ready is emitted
C11_Witness ==
    /\ cycled
    /\ game_controller_state.game_state = "Standby"
    /\ ~context.visual_referee_proceed_to_ready
    /\ filter_entry.state = StateReady
    /\ filter.state = StateReady
    /\ emitted.game_state = Filtered("Ready")

\* the kicking team a cycle emits
kicking_team == emitted.kicking_team
\* the two fields after the cycle: when a player of the team was last newly
\* penalized, if that is no longer ago than duration_to_keep_new_penalties
hulk_penalized_at == filter.last_time_hulk_was_penalized
opponent_penalized_at == filter.last_time_opponent_was_penalized

\* C12: in a cycle with sub-state PushingFreeKick and no kicking team from the
\* game controller, the kicking team is the opponent of the team that was
\* penalized most recently within duration_to_keep_new_penalties: if only the
\* HULKs or the HULKs later than the opponent, the opponent kicks; if only the
\* opponent or the opponent later than the HULKs, the HULKs kick.
C12_PushingFreeKickAgainstLatestPenalty ==
    /\ cycled
    /\ game_controller_state.sub_state = Some("PushingFreeKick")
    /\ is_none(game_controller_state.kicking_team)
    => /\ /\ is_some(hulk_penalized_at)
          /\ \/ is_none(opponent_penalized_at)
             \/ unwrap(hulk_penalized_at) > unwrap(opponent_penalized_at)
          => kicking_team = Some("Opponent")
       /\ /\ is_some(opponent_penalized_at)
          /\ \/ is_none(hulk_penalized_at)
             \/ unwrap(opponent_penalized_at) > unwrap(hulk_penalized_at)
          => kicking_team = Some("Hulks")

\* the ball a cycle remembers: the one seen in this cycle, else the one kept
remembered_ball ==
    IF is_some(context.last_ball_state)
    THEN context.last_ball_state ELSE filter_entry.last_observed_ball

\* the team whose half the remembered ball is not in, and the team whose it is in
TeamAcrossTheBall ==
    IF unwrap(remembered_ball).ball_in_field[1] >= 0 THEN "Hulks" ELSE "Opponent"
TeamAtTheBall ==
    IF unwrap(remembered_ball).ball_in_field[1] >= 0 THEN "Opponent" ELSE "Hulks"

\* C13: a kicking team supplied by the game controller is emitted unchanged;
\* otherwise, with a remembered ball, CornerKick and PenaltyKick go to the HULKs
\* exactly when the ball's field x is not negative and GoalKick goes to the
\* HULKs exactly when it is negative; without a remembered ball the kicking team
\* of these sub-states is None.
C13_KickingTeamByHalf ==
    cycled =>
        /\ is_some(game_controller_state.kicking_team) =>
                kicking_team = game_controller_state.kicking_team
        /\ /\ is_none(game_controller_state.kicking_team)
           /\ game_controller_state.sub_state
                \in {Some("CornerKick"), Some("PenaltyKick"), Some("GoalKick")}
           => IF is_none(remembered_ball) THEN kicking_team = None
              ELSE IF game_controller_state.sub_state = Some("GoalKick")
                   THEN kicking_team = Some(TeamAtTheBall)
                   ELSE kicking_team = Some(TeamAcrossTheBall)

\* a goal kick given to the HULKs on a ball remembered from an earlier cycle
\* in the own half, which is used once more and then forgotten as too old
C13_Witness ==
    /\ cycled
    /\ is_none(game_controller_state.kicking_team)
    /\ game_controller_state.sub_state = Some("GoalKick")
    /\ is_none(context.last_ball_state)
    /\ is_some(filter_entry.last_observed_ball)
    /\ kicking_team = Some("Hulks")
    /\ is_none(filter.last_observed_ball)

(***************************************************************************)
(* Properties of the motion selector.  They speak about the most recent    *)
(* cycle: the motion it started from (selector_entry.last_motion), its     *)
(* inputs (motion_context) and what it selected (motion_selection).        *)
(***************************************************************************)
selected == is_some(motion_selection)
from_motion == selector_entry.last_motion
current_motion == unwrap(motion_selection).current_motion
dispatching_motion == unwrap(motion_selection).dispatching_motion
requested_motion == motion_type_from_command(motion_context.motion_command)
motion_safe_to_exit == motion_context.motion_safe_exits[from_motion]
has_ground_contact == motion_context.has_ground_contact

StandUps == {"StandUpFront", "StandUpBack", "StandUpSitting"}
KeeperMotions == {"WideStance", "KeeperJumpLeft", "KeeperJumpRight"}
StableMotions == {"Stand", "Walk", "Initial", "Penalized"}

\* the fast paths the specification documents
DocumentedFastPath ==
    \/ from_motion = "Walk" /\ requested_motion \in KeeperMotions
    \/ from_motion \in KeeperMotions /\ requested_motion = "Walk"
    \/ requested_motion = "FallProtection"

\* C5 as stated: with a requested motion other than the last motion, the current
\* motion is the last motion or Dispatching, unless the last motion is
\* Dispatching or the pair is a documented fast path (Walk <-> WideStance,
\* Walk <-> KeeperJumpLeft/Right, FallProtection); in particular it never changes
\* between two distinct stable motions.
C5_OnlyDocumentedFastPaths ==
    (selected /\ requested_motion # from_motion) =>
        /\ current_motion \notin {from_motion, "Dispatching"} =>
            from_motion = "Dispatching" \/ DocumentedFastPath
        /\ (from_motion \in StableMotions /\ current_motion \in StableMotions) =>
            current_motion = from_motion

\* the requests the code serves from the last motion without Dispatching
CodedFastPath ==
    \/ requested_motion = "Unstiff"
        /\ (~has_ground_contact \/ (from_motion = "SitDown" /\ motion_safe_to_exit))
    \/ requested_motion = "FallProtection"
    \/ requested_motion \in KeeperMotions
        /\ (from_motion = "Walk" \/ motion_safe_to_exit)
    \/ requested_motion = "CenterJump"
    \/ from_motion = "ArmsUpSquat" /\ requested_motion \in {"JumpLeft", "JumpRight"}
    \/ from_motion = "Stand" /\ requested_motion = "Walk"
    \/ from_motion = "Walk" /\ requested_motion = "Stand"
    \/ from_motion \in {"Unstiff", "AnimationStiff"}
        /\ motion_safe_to_exit /\ requested_motion = "Animation"
    \/ from_motion = "Animation"
        /\ motion_safe_to_exit /\ requested_motion = "AnimationStiff"

\* C5 amended: with a requested motion other than the last motion, the current
\* motion is the last motion or Dispatching, unless the last motion is
\* Dispatching or the request is one the code serves directly, and then the
\* current motion is the requested one: Unstiff without ground contact or from a
\* safe SitDown, FallProtection, a keeper motion from Walk or from a motion that
\* is safe to exit, CenterJump, JumpLeft/Right from ArmsUpSquat, Stand <-> Walk,
\* Animation from a safe Unstiff or AnimationStiff, AnimationStiff from a safe
\* Animation.  Between two distinct stable motions only Stand <-> Walk is direct.
C5_OnlyCodedFastPaths ==
    (selected /\ requested_motion # from_motion) =>
        /\ current_motion \notin {from_motion, "Dispatching"} =>
            \/ from_motion = "Dispatching"
            \/ CodedFastPath /\ current_motion = requested_motion
        /\ (/\ from_motion \in StableMotions
            /\ current_motion \in StableMotions
            /\ current_motion # from_motion) =>
                {from_motion, current_motion} = {"Stand", "Walk"}

\* Walk was requested in Stand and is the current motion of the same cycle
C5_Witness ==
    /\ selected
    /\ from_motion = "Stand"
    /\ requested_motion = "Walk"
    /\ current_motion = "Walk"

\* the last motion is not Dispatching, and the request is neither served
\* directly nor held back by FallProtection handling or by ArmsUpStand in the air
NotFastPathed ==
    /\ requested_motion # from_motion
    /\ from_motion # "Dispatching"
    /\ ~CodedFastPath
    /\ ~(from_motion = "ArmsUpStand" /\ ~has_ground_contact)

DispatchTarget == IF requested_motion = "Unstiff" THEN "SitDown" ELSE requested_motion

C7_UnstiffThroughSitDown ==
    (selected /\ requested_motion = "Unstiff") =>
        /\ ~has_ground_contact => current_motion = "Unstiff"
        /\ (has_ground_contact /\ from_motion # "Unstiff") =>
            /\ current_motion = "Unstiff" =>
                from_motion = "SitDown" /\ motion_safe_to_exit
            /\ from_motion \notin {"SitDown", "Dispatching"} =>
                IF motion_safe_to_exit
                THEN /\ current_motion = "Dispatching"
                     /\ dispatching_motion = Some("SitDown")
                ELSE current_motion = from_motion
            /\ (from_motion = "Dispatching" /\ motion_safe_to_exit) =>
                current_motion = "SitDown"

\* Unstiff was requested with ground contact in a SitDown that is safe to exit
C7_Witness ==
    /\ selected
    /\ requested_motion = "Unstiff"
    /\ has_ground_contact
    /\ from_motion = "SitDown"
    /\ motion_safe_to_exit
    /\ current_motion = "Unstiff"

\* C8 as stated: a stand-up stays the current motion when FallProtection is
\* requested, and a stand-up that is not safe to exit is never left.
C8_StandUpsRunToCompletion ==
    (selected /\ from_motion \in StandUps) =>
        /\ requested_motion = "FallProtection" => current_motion = from_motion
        /\ ~motion_safe_to_exit => current_motion = from_motion

\* C8 amended: a stand-up stays the current motion when FallProtection is
\* requested, and a stand-up that is not safe to exit is left only for Unstiff
\* requested without ground contact and for a requested CenterJump.
C8_StandUpsLeftOnlyForUnstiffAndCenterJump ==
    (selected /\ from_motion \in StandUps) =>
        /\ requested_motion = "FallProtection" => current_motion = from_motion
        /\ ~motion_safe_to_exit =>
            current_motion =
                IF \/ requested_motion = "Unstiff" /\ ~has_ground_contact
                   \/ requested_motion = "CenterJump"
                THEN requested_motion ELSE from_motion

\* FallProtection was requested during StandUpSitting
C8_Witness ==
    /\ selected
    /\ from_motion = "StandUpSitting"
    /\ requested_motion = "FallProtection"
    /\ current_motion = "StandUpSitting"

\* C14 as stated: stand_up_count grows by one exactly when the current motion
\* is StandUpBack, StandUpFront or StandUpSitting and the last motion was none
\* of them, is reset to 0 when the current motion is Stand, Walk, Initial or
\* Penalized, and is unchanged otherwise.
C14_CountsEveryStandUp ==
    selected =>
        selector.stand_up_count =
            IF current_motion \in StandUps /\ from_motion \notin StandUps
            THEN selector_entry.stand_up_count + 1
            ELSE IF current_motion \in StableMotions THEN 0
            ELSE selector_entry.stand_up_count

\* C15 as stated: with ArmsUpStand the last motion and no ground contact the
\* current motion is ArmsUpStand, whatever is requested.
C15_ArmsUpStandAlwaysKeptInTheAir ==
    (selected /\ from_motion = "ArmsUpStand" /\ ~has_ground_contact) =>
        current_motion = "ArmsUpStand"

\* C15 amended: with ArmsUpStand the last motion and no ground contact the
\* current motion is ArmsUpStand, except that a requested Unstiff or CenterJump
\* and, when ArmsUpStand is safe to exit, a requested keeper motion becomes the
\* current motion.
C15_ArmsUpStandKeptInTheAir ==
    (selected /\ from_motion = "ArmsUpStand" /\ ~has_ground_contact) =>
        current_motion =
            IF \/ requested_motion \in {"Unstiff", "CenterJump"}
               \/ requested_motion \in KeeperMotions /\ motion_safe_to_exit
            THEN requested_motion ELSE "ArmsUpStand"

\* Stand was requested in the air during an ArmsUpStand that is safe to exit
C15_Witness ==
    /\ selected
    /\ from_motion = "ArmsUpStand"
    /\ ~has_ground_contact
    /\ motion_safe_to_exit
    /\ requested_motion = "Stand"
    /\ current_motion = "ArmsUpStand"

(***************************************************************************)
(* Properties of the step planner.                                         *)
(***************************************************************************)
clamped == is_some(clamp_call.result)
clamp_request == clamp_call.request
clamp_volume == unwrap(clamp_call.walk_volume)
clamp_result == unwrap(clamp_call.result)
clamp_step == unwrap(clamp_result)

\* calculate_walk_volume of a step under the parameters of the call
VolumeOf(step) ==
    calculate_walk_volume(step, clamp_volume.max_step_size,
                          clamp_volume.max_step_size_backwards,
                          clamp_volume.translation_exponent,
                          clamp_volume.rotation_exponent,
                          clamp_volume.max_turn_left, clamp_volume.max_turn_right)

\* the request with its turn clamped
TurnClampedRequest ==
    Step(clamp_request.forward, clamp_request.left,
         clamp(clamp_request.turn, clamp_volume.max_turn_left,
               clamp_volume.max_turn_right))

\* the rounding of the arithmetic that the volume of a clamped step may show
Epsilon == Unit \div 100

\* C16: for every request and every walk volume with positive maxima, positive
\* exponents and max_turn_left < 0 < max_turn_right, clamp_step_to_walk_volume
\* returns a step, and calculate_walk_volume of that step under the same
\* parameters is at most 1 + epsilon.
C16_ClampedStepInsideWalkVolume ==
    clamped =>
        /\ is_some(clamp_result)
        /\ is_some(VolumeOf(clamp_step))
        /\ unwrap(VolumeOf(clamp_step)) <= Unit + Epsilon

\* a request outside the walk volume was scaled onto its surface
C16_Witness ==
    /\ clamped
    /\ unwrap(VolumeOf(TurnClampedRequest)) > 2 * Unit
    /\ clamp_request.forward < 0
    /\ clamp_request.left # 0
    /\ unwrap(VolumeOf(clamp_step)) <= Unit + Epsilon
    /\ unwrap(VolumeOf(clamp_step)) >= Unit - Epsilon

\* C17: clamp_step_to_walk_volume returns the turn of the request clamped to
\* [max_turn_left, max_turn_right]; it returns forward and left unchanged when
\* the walk volume of the turn-clamped request is at most 1, and otherwise both
\* multiplied by one scale between 0 and 1, so that neither changes its sign
\* and a left of zero stays zero; the request (1.0, 0.0, 0.4) with maxima
\* (0.08, 0.04, 0.5) gives forward > 0, left = 0 and turn = 0.4.
C17_TurnClampedAndCommonScale ==
    clamped =>
        /\ is_some(clamp_result)
        /\ clamp_step.turn = TurnClampedRequest.turn
        /\ IF unwrap(VolumeOf(TurnClampedRequest)) <= Unit
           THEN /\ clamp_step.forward = clamp_request.forward
                /\ clamp_step.left = clamp_request.left
           ELSE /\ \E scale \in 0..Unit :
                    /\ clamp_step.forward = FMul(clamp_request.forward, scale)
                    /\ clamp_step.left = FMul(clamp_request.left, scale)
                /\ clamp_step.forward * clamp_request.forward >= 0
                /\ clamp_step.left * clamp_request.left >= 0
                /\ clamp_request.left = 0 => clamp_step.left = 0
        /\ clamp_request = ScenarioCall.request
                /\ clamp_volume = ScenarioCall.walk_volume
           => /\ clamp_step.forward > 0
              /\ clamp_step.left = 0
              /\ clamp_step.turn = 400

\* the request (1.0, 0.0, 0.4) was clamped: scaled down, straight ahead
C17_Witness ==
    /\ clamped
    /\ clamp_request = ScenarioCall.request
    /\ clamp_volume = ScenarioCall.walk_volume
    /\ unwrap(VolumeOf(TurnClampedRequest)) > Unit
    /\ clamp_step.forward > 0
    /\ clamp_step.forward < clamp_request.forward
    /\ clamp_step.left = 0

planned == is_some(planner_outputs)
planner_ret == unwrap(unwrap(planner_outputs).ret)
walk_requested == planner_context.motion_command.name = "Walk"
\* a Walk cycle that returned a planned step
walk_planned ==
    /\ planned
    /\ walk_requested
    /\ is_some(unwrap(planner_outputs).ret)
    /\ planner_ret.name = "Ok"
planned_step == planner_ret.value

\* C18: the turn of the step a Walk cycle plans, computed or injected, lies in
\* [-max_inside_turn, max_step_size.turn] when the walking engine is Walking
\* on Left support, in [-max_step_size.turn, max_inside_turn] on Right
\* support, and in [-max_step_size.turn, max_step_size.turn] in any other mode.
C18_TurnWithinSupportBounds ==
    walk_planned =>
        LET mode == planner_context.walking_engine_mode
            max_turn == planner_context.max_step_size.turn
            max_inside_turn == planner_context.max_inside_turn
        IN  IF mode.name = "Walking" /\ mode.support_side = "Left"
            THEN -max_inside_turn <= planned_step.turn /\ planned_step.turn <= max_turn
            ELSE IF mode.name = "Walking"
            THEN -max_turn <= planned_step.turn /\ planned_step.turn <= max_inside_turn
            ELSE -max_turn <= planned_step.turn /\ planned_step.turn <= max_turn

\* an injected step that turns right by 0.4 rad was planned on Left support
\* with the inside turn of 0.3 rad
C18_Witness ==
    /\ walk_planned
    /\ planner_context.walking_engine_mode = Walking("Left")
    /\ is_some(planner_context.injected_step)
    /\ unwrap(planner_context.injected_step).turn < -planner_context.max_inside_turn
    /\ planned_step.turn = -planner_context.max_inside_turn

\* a Walk cycle: it computed a maximum step size, whatever became of the path
walk_cycled == planned /\ walk_requested
used_max_step_size == unwrap(unwrap(planner_outputs).max_step_size)
requested_speed == planner_context.motion_command.speed
last_step_was_zero ==
    Abs(planner_entry.last_planned_step.forward)
        + Abs(planner_entry.last_planned_step.left)
        + Abs(planner_entry.last_planned_step.turn) <= 0

\* the maximum step size of a speed before any side bonus
SizeOfSpeed(speed) ==
    IF speed = "Slow"
    THEN StepAdd(planner_context.max_step_size, planner_context.step_size_delta_slow)
    ELSE IF speed = "Normal" THEN planner_context.max_step_size
    ELSE StepAdd(planner_context.max_step_size, planner_context.step_size_delta_fast)

\* the speed a cycle plans with
PlannedSpeed ==
    IF requested_speed = "Fast" /\ planner.leg_joints_hot
    THEN "Normal" ELSE requested_speed

\* C19: in a Walk cycle that plans a step and was entered with a last planned
\* step of zero, the left component of the maximum step size the step is
\* clamped with is that of the speed plus initial_side_bonus, at Slow, Normal
\* and Fast; entered with any other last planned step it is that of the speed.
C19_SideBonusAtEverySpeed ==
    walk_planned =>
        used_max_step_size.left =
            SizeOfSpeed(PlannedSpeed).left
                + (IF last_step_was_zero THEN planner_context.initial_side_bonus ELSE 0)

highest_leg_temperature ==
    MaxOf(planner_context.sensor_data.temperature_sensors.left_leg
            \o planner_context.sensor_data.temperature_sensors.right_leg)

\* C20: in every Walk cycle leg_joints_hot becomes true when the highest leg
\* temperature is above 75, false when it is below 70, and keeps its value in
\* between; and a Fast request is planned with the maximum step size of Normal
\* exactly when leg_joints_hot is then true.
C20_FastDegradesWhileHot ==
    walk_cycled =>
        /\ planner.leg_joints_hot =
                IF highest_leg_temperature > 75 THEN TRUE
                ELSE IF highest_leg_temperature < 70 THEN FALSE
                ELSE planner_entry.leg_joints_hot
        /\ requested_speed = "Fast" =>
                LET normal_size ==
                        StepAdd(planner_context.max_step_size,
                                side_bonus(planner_entry.last_planned_step,
                                           planner_context.initial_side_bonus))
                IN  (used_max_step_size = normal_size) <=> planner.leg_joints_hot

\* a Fast walk at 72 degrees after the legs had been hot: still hot, and
\* planned with the maximum step size of Normal
C20_Witness ==
    /\ walk_cycled
    /\ requested_speed = "Fast"
    /\ planner_entry.leg_joints_hot
    /\ highest_leg_temperature = 72
    /\ planner.leg_joints_hot
    /\ used_max_step_size.forward = planner_context.max_step_size.forward

\* the path of the Walk command of the last cycle
walked_path == planner_context.motion_command.path

\* the last cycle returned the error of an empty path
cycle_failed == is_some(unwrap(planner_outputs).ret) /\ planner_ret.name = "Err"

\* the last cycle returned a planned step
cycle_planned == is_some(unwrap(planner_outputs).ret) /\ planner_ret.name = "Ok"

\* C21: a Walk cycle with a path without segments returns an error and
\* leaves last_planned_step as it was on entry; a Walk cycle with a path of
\* at least one segment and a positive maximum forward step returns a
\* planned step.
C21_EmptyPathFails ==
    walk_cycled =>
        /\ Len(walked_path.segments) = 0 =>
                /\ cycle_failed
                /\ planner.last_planned_step = planner_entry.last_planned_step
        /\ (Len(walked_path.segments) > 0 /\ used_max_step_size.forward > 0) =>
                cycle_planned

\* a Walk cycle with an empty path entered after a step that was not zero
C21_Witness ==
    /\ walk_cycled
    /\ Len(walked_path.segments) = 0
    /\ cycle_failed
    /\ planner_entry.last_planned_step # StepDefault

(***************************************************************************)
(* Properties of the sensor intake.                                        *)
(***************************************************************************)
\* what the most recent cycle and the one before it returned
receiver_ret == unwrap(unwrap(receiver_outputs))
receiver_previous_ret == unwrap(unwrap(receiver_previous))

\* the most recent cycle returned its outputs
receiver_emitted ==
    /\ is_some(receiver_outputs) /\ is_some(unwrap(receiver_outputs))
    /\ receiver_ret.name = "Ok"

\* the cycle before the most recent one returned its outputs
receiver_emitted_before ==
    /\ is_some(receiver_previous) /\ is_some(unwrap(receiver_previous))
    /\ receiver_previous_ret.name = "Ok"

\* C22: in every cycle after the first, the emitted last_cycle_duration is
\* the emitted start time minus the start time the previous cycle emitted.
C22_DurationSincePreviousCycle ==
    (receiver_emitted /\ receiver_emitted_before) =>
        receiver_ret.value.cycle_time.last_cycle_duration
            = receiver_ret.value.cycle_time.start_time
                - receiver_previous_ret.value.cycle_time.start_time

\* C23: every cycle of the sensor intake returns its outputs: none returns an
\* error and none panics, whatever the sensors and the clock deliver.
C23_CycleNeverFails == is_some(receiver_outputs) => receiver_emitted

(***************************************************************************)
(* Properties of the ball hypothesis.                                      *)
(***************************************************************************)
\* an operation was applied to a hypothesis that existed before it
hypothesis_changed == is_some(hypothesis_call) /\ is_some(hypothesis_entry)

\* C24: a hypothesis starts with validity 1.0; no predict, update with a
\* bonus >= 0 or merge lowers its validity, which stays >= 0; an update adds
\* exactly validity_bonus to the validity and sets last_seen to the
\* detection time.
C24_ValidityNeverDecreases ==
    /\ (is_some(hypothesis_call) /\ unwrap(hypothesis_call).name = "new") =>
            unwrap(hypothesis).validity = Unit
    /\ hypothesis_changed =>
            LET call == unwrap(hypothesis_call)
                before == unwrap(hypothesis_entry)
                after == unwrap(hypothesis)
            IN  /\ after.validity >= before.validity
                /\ after.validity >= 0
                /\ call.name = "update" =>
                        /\ after.validity = before.validity + call.validity_bonus
                        /\ after.last_seen = call.detection_time

\* an update with a bonus of a hypothesis that a merge or an update had
\* raised before, seen at another time than before
C24_Witness ==
    /\ hypothesis_changed
    /\ unwrap(hypothesis_call).name = "update"
    /\ unwrap(hypothesis_call).validity_bonus > 0
    /\ unwrap(hypothesis_entry).validity > Unit
    /\ unwrap(hypothesis_entry).last_seen # unwrap(hypothesis).last_seen

(***************************************************************************)
(* Properties of the kick state.                                           *)
(***************************************************************************)
\* the most recent operation on the kick was `name`
kick_called(name) == is_some(kick_call) /\ unwrap(kick_call).name = name

\* C25: a kick made by KickState::new has index 0; advance_to_next_step
\* raises the index by one and keeps variant, side, strength and ball
\* position; a kick is finished only when its index exceeds the number of
\* sub-steps of its variant.
C25_FinishedOnlyPastTheSubSteps ==
    /\ (kick_called("new") /\ is_some(kick)) => unwrap(kick).index = 0
    /\ kick_called("advance_to_next_step") =>
            unwrap(kick) = [unwrap(kick_entry) EXCEPT !.index = @ + 1]
    /\ (kick_called("is_finished") /\ unwrap(kick_call).ret) =>
            unwrap(kick).index > Len(KickSteps[unwrap(kick).variant])

\* C25, as it holds: a kick made by KickState::new has index 0;
\* advance_to_next_step raises the index by one and keeps variant, side,
\* strength and ball position; a kick is finished exactly when its index has
\* reached the number of sub-steps of its variant, the sub-steps being
\* counted from index 0.
C25_FinishedAfterTheLastSubStep ==
    /\ (kick_called("new") /\ is_some(kick)) => unwrap(kick).index = 0
    /\ kick_called("advance_to_next_step") =>
            unwrap(kick) = [unwrap(kick_entry) EXCEPT !.index = @ + 1]
    /\ kick_called("is_finished") =>
            (unwrap(kick_call).ret
                <=> unwrap(kick).index >= Len(KickSteps[unwrap(kick).variant]))

\* a kick of two sub-steps that is_finished reports as finished at index 2
C25_Witness ==
    /\ kick_called("is_finished")
    /\ unwrap(kick_call).ret
    /\ Len(KickSteps[unwrap(kick).variant]) = 2
    /\ unwrap(kick).index = 2

(***************************************************************************)
(* Properties of the mode Catching.                                        *)
(***************************************************************************)
\* the most recent command was given in Catching and has left the mode there
stayed_in_catching ==
    /\ is_some(walking_call)
    /\ unwrap(walking_mode).name = "Catching"

\* the planned end position of the swing sole before and after that command
swing_target_before == unwrap(walking_mode_entry).catching.step.plan.end_feet.swing_sole
swing_target_after == unwrap(walking_mode).catching.step.plan.end_feet.swing_sole

\* C26: a command that leaves the engine in Catching replaces the catching
\* plan only by one whose swing-sole end position has a strictly larger
\* norm, so the norm of that position never decreases while in Catching.
C26_SwingTargetNeverShrinks ==
    stayed_in_catching =>
        /\ norm(swing_target_after) >= norm(swing_target_before)
        /\ unwrap(walking_mode).catching # unwrap(walking_mode_entry).catching
                => norm(swing_target_after) > norm(swing_target_before)

\* a catch that was triggered again and has replaced the plan
C26_Witness ==
    /\ stayed_in_catching
    /\ norm(swing_target_after) > norm(swing_target_before)

(***************************************************************************)
(* Properties of the behaviour in KickingRollingBall.                      *)
(***************************************************************************)
\* execute has returned
executed == is_some(behavior_call) /\ unwrap(behavior_call).returned

\* the world state of the call and what execute returned
called_world_state == unwrap(behavior_call).world_state
executed_ret == unwrap(behavior_call).ret

\* closed containment: start <= item <= end
in_closed_interval(range, item) == range.start <= item /\ item <= range.end

\* C27: a kick pose counts as reached exactly when its x, its y and its
\* orientation in UpcomingSupport each lie in the closed interval from start
\* to end of reached_x, reached_y and reached_turn; a value on either bound
\* counts as reached.
C27_KickPoseReachedOnClosedIntervals ==
    executed =>
        LET decisions == all_decisions(called_world_state)
        IN  \A index \in 1..Len(decisions) :
                LET kick_info == InWalkKicks[decisions[index].variant]
                    pose == TransformPose(
                                called_world_state.robot.ground_to_upcoming_support,
                                decisions[index].kick_pose)
                IN  unwrap(behavior_call).reached[index]
                        <=> /\ in_closed_interval(kick_info.reached_x, pose.position[1])
                            /\ in_closed_interval(kick_info.reached_y, pose.position[2])
                            /\ in_closed_interval(kick_info.reached_turn, pose.orientation)

\* the head motion that searches towards the ramp
search_towards(ramp_direction) ==
    IF ramp_direction = "Left" THEN [name |-> "SearchLeft"] ELSE [name |-> "SearchRight"]

\* the calls with the same ramp direction that return an InWalkKick
kicks_at_ramp(ramp_direction) ==
    { execute(world_state, InWalkKicks)[1] :
        world_state \in
            { other \in WorldStates :
                /\ other.robot.primary_state
                        = [name |-> "KickingRollingBall", ramp_direction |-> ramp_direction]
                /\ is_some(execute(other, InWalkKicks))
                /\ execute(other, InWalkKicks)[1].name = "InWalkKick" } }

\* C28: in KickingRollingBall execute always returns a command: without a
\* ball, Stand with the head searching towards the ramp; with a ball, the
\* head looking at the ball and an InWalkKick for the first decision of
\* kick_decisions, then instant_kick_decisions, whose kick pose is reached,
\* its kicking side being determined by the ramp direction, and Stand where
\* no kick pose is reached.  In every other primary state it returns None.
C28_KickingRollingBallAlwaysCommands ==
    executed =>
        LET world_state == called_world_state
            primary_state == world_state.robot.primary_state
            decisions == all_decisions(world_state)
            reached == unwrap(behavior_call).reached
            first_reached ==
                { index \in 1..Len(decisions) :
                    reached[index] /\ \A other \in 1..(index - 1) : ~reached[other] }
        IN  IF primary_state.name # "KickingRollingBall" THEN is_none(executed_ret)
            ELSE /\ is_some(executed_ret)
                 /\ LET command == unwrap(executed_ret)
                    IN  IF is_none(world_state.ball)
                        THEN command = Stand(search_towards(primary_state.ramp_direction))
                        ELSE /\ command.head
                                    = LookAt(unwrap(world_state.ball).ball_in_ground)
                             /\ IF first_reached = {} THEN command.name = "Stand"
                                ELSE /\ command.name = "InWalkKick"
                                     /\ \A index \in first_reached :
                                            /\ command.kick = decisions[index].variant
                                            /\ command.strength = decisions[index].strength
                                     /\ \A other \in
                                                kicks_at_ramp(primary_state.ramp_direction) :
                                            other.kicking_side = command.kicking_side

(***************************************************************************)
(* Properties of the intersection of line segments.                        *)
(***************************************************************************)
\* the intersections have been computed
intersected == is_some(intersection_call) /\ unwrap(intersection_call).intersects # <<>>

\* the point lies on the segment: on its line and between its end points
on_segment(segment, point) ==
    /\ cross(segment.start, segment.end, point) = 0
    /\ min(segment.start[1], segment.end[1]) <= point[1]
    /\ point[1] <= max(segment.start[1], segment.end[1])
    /\ min(segment.start[2], segment.end[2]) <= point[2]
    /\ point[2] <= max(segment.start[2], segment.end[2])

\* the end points of `other` lie strictly on either side of the line of
\* the segment
on_both_sides(segment, other) ==
    LET start_side == cross(segment.start, segment.end, other.start)
        end_side == cross(segment.start, segment.end, other.end)
    IN  (start_side > 0 /\ end_side < 0) \/ (start_side < 0 /\ end_side > 0)

\* the two segments have a point in common: an end point of one lies on the
\* other, or each has its end points strictly on both sides of the other
have_common_point(a, b) ==
    \/ on_segment(a, b.start) \/ on_segment(a, b.end)
    \/ on_segment(b, a.start) \/ on_segment(b, a.end)
    \/ (on_both_sides(a, b) /\ on_both_sides(b, a))

\* C29: intersects_line_segment gives one result for all eight ways of
\* swapping two line segments and flipping the end points of either.
C29_IntersectsUnderAllPermutations ==
    intersected =>
        \A index \in 1..8 :
            unwrap(intersection_call).intersects[index]
                = unwrap(intersection_call).intersects[1]

\* C30: intersects_line_segment is true exactly when the two segments have
\* at least one point in common.
C30_IntersectsIffCommonPoint ==
    intersected =>
        (unwrap(intersection_call).intersects[1]
            <=> have_common_point(unwrap(intersection_call).reference_line_segment,
                                  unwrap(intersection_call).line_segment))

(***************************************************************************)
(* Liveness of dispatching, under SpecDispatch.                            *)
(***************************************************************************)
holding == is_some(held_command)
held_motion == motion_type_from_command(unwrap(held_command))

\* the stand_up_count still admits an entry into a stand-up
can_stand_up == selector.stand_up_count < MaxStandUpCount

\* C31: once the requested motion stays constant, with ground contact and every
\* current motion eventually reporting safe-to-exit, the requested motion
\* eventually becomes the current motion, from every starting motion.
C31_RequestedEventuallyCurrent ==
    (holding /\ can_stand_up) ~> (holding /\ selector.last_motion = held_motion)
(***************************************************************************)
(* The truncation of the path, under SpecPath.                             *)
(***************************************************************************)
\* the arclength of the path before its segment `index`
RECURSIVE arclength_before(_, _)
arclength_before(segments, index) ==
    IF index = 1 THEN 0
    ELSE arclength_before(segments, index - 1)
            + path_segment_length(segments[index - 1])

\* the segments that start within max_step_size.forward of arclength
within_budget ==
    {index \in 1..Len(walked_path.segments) :
        arclength_before(walked_path.segments, index) < used_max_step_size.forward}

\* the last of them
selected_segment ==
    walked_path.segments[CHOOSE index \in within_budget :
                            \A other \in within_budget : other <= index]

\* where a segment ends
segment_end(segment) == IF segment.name = "Arc" THEN end_point(segment) ELSE segment.end

\* C32: the target of a Walk cycle that plans a step is the end point of the last
\* segment, in path order, that starts within max_step_size.forward of arclength
\* from the start of the path, be it a line segment or an arc.
C32_TargetIsEndOfLastSegmentInBudget ==
    walk_planned =>
        /\ within_budget # {}
        /\ unwrap(planner_outputs).target_pose = Some(segment_end(selected_segment))
(***************************************************************************)
(* The kick overlay, under SpecOverlay.                                    *)
(***************************************************************************)
overridden == kick_called("override_with_kick")
joints_before == unwrap(kick_call).self
joints_after == unwrap(kick_call).ret
overlay_step == unwrap(kick_call).step

\* what compute_kick_overrides yields for the sub-step of the kick
kick_overrides ==
    compute_kick_overrides(get_step(unwrap(kick), KickSteps),
                           overlay_step.time_since_start, unwrap(kick).strength)

\* C33: the overlay adds to the hip pitch and the ankle pitch of the swing leg,
\* the leg opposite to the support side of the step, the interpolated override
\* of the sub-step scaled by the strength of the kick, which is zero outside
\* every keyframe interval; the other joints of both legs and the joints that
\* are not of a leg stay as they were.
C33_OverlayOnlyOnSwingLegPitches ==
    overridden =>
        /\ joints_after.left_arm = joints_before.left_arm
        /\ joints_after.right_arm = joints_before.right_arm
        /\ IF overlay_step.plan.support_side = "Left"
           THEN /\ joints_after.left_leg = joints_before.left_leg
                /\ joints_after.right_leg =
                        LegJointsAdd(joints_before.right_leg, kick_overrides)
           ELSE /\ joints_after.right_leg = joints_before.right_leg
                /\ joints_after.left_leg =
                        LegJointsAdd(joints_before.left_leg, kick_overrides)
(***************************************************************************)
(* The whistle-in-set ball reference, under SpecPlaying.                   *)
(***************************************************************************)
own_motion_in_set ==
    game_controller_state.penalties[context.player_number] = "IllegalMotionInSet"

\* the ball of the cycle on the field
ball_on_field ==
    Transform(unwrap(context.ground_to_field), unwrap(context.ball_position).position)

\* C34: a cycle that leaves the own state in WhistleInSet with ground_to_field
\* known, a ball observed and no reference stored on entry stores the field
\* position of the ball as the whistle-in-set ball reference; a cycle that
\* leaves the own state in Playing, or in which the own player is penalized for
\* motion in set, clears the reference.
C34_ReferenceStoredInWhistleInSet ==
    cycled =>
        /\ (filter.state.name = "Playing" \/ own_motion_in_set) =>
                filter.whistle_in_set_ball_position = None
        /\ ( /\ filter.state.name = "WhistleInSet"
             /\ ~own_motion_in_set
             /\ is_some(context.ground_to_field)
             /\ is_some(context.ball_position)
             /\ is_none(filter_entry.whistle_in_set_ball_position) ) =>
                filter.whistle_in_set_ball_position = Some(ball_on_field)
(***************************************************************************)
(* What leaves a motion that is not safe to exit, under SpecMotion.        *)
(***************************************************************************)
\* the motions FallProtection does not preempt
KeptUnderFallProtection ==
    {"StandUpFront", "StandUpBack", "StandUpSitting", "WideStance", "JumpLeft",
     "JumpRight", "CenterJump", "ArmsUpStand"}

\* the requests that are served without waiting for a safe exit
ServedAtOnce ==
    \/ requested_motion = "Unstiff" /\ ~has_ground_contact
    \/ requested_motion = "FallProtection" /\ from_motion \notin KeptUnderFallProtection
    \/ requested_motion = "CenterJump"
    \/ requested_motion \in KeeperMotions /\ from_motion = "Walk"
    \/ requested_motion \in {"JumpLeft", "JumpRight"} /\ from_motion = "ArmsUpSquat"
    \/ requested_motion = "Walk" /\ from_motion = "Stand"
    \/ requested_motion = "Stand" /\ from_motion = "Walk"

\* C35: when the last motion is not safe to exit, the current motion is the last
\* motion, except that it is the requested motion when Unstiff is requested
\* without ground contact, FallProtection is requested in a motion other than
\* the stand-ups, WideStance, the jumps and ArmsUpStand, CenterJump is
\* requested, a keeper motion is requested in Walk, JumpLeft or JumpRight is
\* requested in ArmsUpSquat, or Walk is requested in Stand or Stand in Walk.
C35_UnsafeMotionLeftOnlyWhenServedAtOnce ==
    (selected /\ ~motion_safe_to_exit) =>
        current_motion = IF ServedAtOnce THEN requested_motion ELSE from_motion

\* a Walk that is not safe to exit is left for the WideStance that is requested
C35_Witness ==
    /\ selected
    /\ ~motion_safe_to_exit
    /\ requested_motion = "WideStance"
    /\ from_motion = "Walk"
    /\ current_motion = "WideStance"
(***************************************************************************)
(* The motion selection a cycle emits, under SpecMotion.                   *)
(***************************************************************************)
\* C37: in what a cycle emits, dispatching_motion is Some exactly when
\* current_motion is Dispatching; it is then the requested motion, with SitDown
\* in the place of a requested Unstiff; it is never Some(Unstiff) nor
\* Some(Dispatching); and last_motion has become the emitted current_motion.
C37_DispatchingMotionReported ==
    selected =>
        /\ is_some(dispatching_motion) <=> current_motion = "Dispatching"
        /\ current_motion = "Dispatching" =>
                dispatching_motion =
                    Some(IF requested_motion = "Unstiff"
                         THEN "SitDown" ELSE requested_motion)
        /\ dispatching_motion # Some("Unstiff")
        /\ dispatching_motion # Some("Dispatching")
        /\ selector.last_motion = current_motion

\* Unstiff was requested with ground contact in a Walk that is safe to exit:
\* the selector dispatches to SitDown
C37_Witness ==
    /\ selected
    /\ requested_motion = "Unstiff"
    /\ from_motion = "Walk"
    /\ current_motion = "Dispatching"
    /\ dispatching_motion = Some("SitDown")
    /\ selector.last_motion = "Dispatching"
(***************************************************************************)
(* The own and the opponent view of the filter, under SpecViews.           *)
(***************************************************************************)
\* C36: the own state and the opponent state of the filter are the same, variant
\* and timestamp, before the first cycle (both Initial) and after every cycle;
\* the own and the opponent game state a cycle emits are the same, or both are
\* Playing with the same kick_off and differ in ball_is_free.
C36_OwnAndOpponentStateAgree ==
    /\ filter.state = filter.opponent_state
    /\ ~cycled => filter.state = StateInitial
    /\ cycled =>
        \/ emitted.game_state = emitted.opponent_game_state
        \/ /\ emitted.game_state.name = "Playing"
           /\ emitted.opponent_game_state.name = "Playing"
           /\ emitted.game_state.kick_off = emitted.opponent_game_state.kick_off

\* a cycle has left both states in WhistleInSet, with the time of the same
\* whistle, and emitted Playing with the ball free for one team only
C36_Witness ==
    /\ cycled
    /\ filter.state.name = "WhistleInSet"
    /\ filter.opponent_state = filter.state
    /\ emitted.game_state.name = "Playing"
    /\ emitted.game_state.ball_is_free # emitted.opponent_game_state.ball_is_free
(***************************************************************************)
(* The cycles of the step planner without a Walk command, under SpecIdle.  *)
(***************************************************************************)
\* C38: a cycle with a motion command other than Walk, InWalkKick included,
\* returns the zero step and leaves the planner as it was: last_planned_step,
\* which decides on the initial side bonus of the next Walk cycle, and
\* leg_joints_hot keep the values of the last Walk cycle.
C38_OnlyWalkTouchesThePlanner ==
    (planned /\ ~walk_requested) =>
        /\ unwrap(planner_outputs).ret = Some(Ok(StepDefault))
        /\ planner.last_planned_step = planner_entry.last_planned_step
        /\ planner.leg_joints_hot = planner_entry.leg_joints_hot
        /\ side_bonus(planner.last_planned_step, planner_context.initial_side_bonus)
                = side_bonus(planner_entry.last_planned_step,
                             planner_context.initial_side_bonus)

\* an InWalkKick cycle after a Walk cycle that planned a step with hot legs
C38_Witness ==
    /\ planned
    /\ planner_context.motion_command.name = "InWalkKick"
    /\ planner_entry.last_planned_step # StepDefault
    /\ planner_entry.leg_joints_hot
    /\ planner = planner_entry
(***************************************************************************)
(* The commands to the mode Catching, under SpecCatching.                  *)
(***************************************************************************)
commanded == is_some(walking_call)
catching_before == unwrap(walking_mode_entry).catching
command_context == unwrap(walking_call).context
mode_after == unwrap(walking_mode)

\* the support foot of the catching step had switched when the command came
support_had_switched == is_support_switched(catching_before.step, command_context)

\* the catching predicate held when the command came
should_have_caught ==
    should_catch(command_context, catching_before.step.plan.end_feet,
                 catching_before.step.plan.support_side)

\* C39: a stand, walk or kick command to Catching leads to Walking, with a zero
\* requested step on the opposite support side, exactly when the support foot
\* has switched, whether the catching predicate holds or not; it leads to
\* Catching on the same support side otherwise, and never to a kick.
C39_CatchingLeftOnlyOnSupportSwitch ==
    commanded =>
        IF support_had_switched
        THEN /\ mode_after.name = "Walking"
             /\ mode_after.walking.requested_step = StepDefault
             /\ mode_after.walking.support_side =
                    opposite(catching_before.step.plan.support_side)
        ELSE /\ mode_after.name = "Catching"
             /\ mode_after.catching.step.plan.support_side =
                    catching_before.step.plan.support_side

\* a kick command that came with the support foot switched and the catching
\* predicate true
C39_Witness ==
    /\ commanded
    /\ unwrap(walking_call).command.name = "kick"
    /\ support_had_switched
    /\ should_have_caught
    /\ mode_after.name = "Walking"
\* the thread is past its send: it waits for cancellation, or is beyond that,
\* or has taken one of its two early returns
past_sending == communication.pc \in {"cancelled", "tasks", "return", "returned"}

\* the thread has returned, or is about to, with one of the two start-up errors
failed_to_start ==
    /\ is_some(communication.ret)
    /\ unwrap(communication.ret).name = "Err"
    /\ unwrap(communication.ret).error \in {"RuntimeNotStarted", "InitialParametersNotParsed"}

\* the call of start waits in blocking_recv or in join
handshaking == is_some(start_call) /\ unwrap(start_call).pc \in {"blocking_recv", "join"}

\* the call of start has returned a Result
start_returned == is_some(start_call) /\ unwrap(start_call).pc = "returned"

\* the sends and the result of start agree with the path the thread took
handshake_in_order ==
    /\ runtime_channel.sends = (IF past_sending THEN 1 ELSE 0)
    /\ past_sending => (is_none(unwrap(runtime_channel.value)) <=> failed_to_start)
    /\ is_some(start_call) => unwrap(start_call).pc # "panicked"
    /\ start_returned =>
            IF communication.pc = "not_spawned"
            THEN unwrap(start_call).ret = Some(StartError("ThreadNotStarted"))
            ELSE IF failed_to_start
            THEN unwrap(start_call).ret = communication.ret
            ELSE /\ unwrap(unwrap(start_call).ret).name = "Ok"
                 /\ unwrap(unwrap(start_call).ret).value =
                        unwrap(unwrap(runtime_channel.value))

\* C40: in Runtime::start the thread sends exactly one value on every path
\* before it waits for cancellation, None where the runtime is not built or
\* the initial parameters are not parsed and Some otherwise; start returns the
\* thread's error in these two cases and Ok otherwise, and a call of start that
\* waits for the thread returns in the end, cancelled or not.
C40_HandshakeCompletes == [](handshake_in_order) /\ (handshaking ~> start_returned)

\* start has returned Ok while the thread waits for a cancellation that has
\* not come
C40_Witness ==
    /\ start_returned
    /\ unwrap(unwrap(start_call).ret).name = "Ok"
    /\ communication.pc = "cancelled"
    /\ ~keep_running
    /\ runtime_channel.sends = 1

====
